---- MODULE Spec2Model ----
(***************************************************************************)
(* State machine of the OK Computer MCP server (TypeScript build):         *)
(* the ServerStateManager state store, the auto_optimize tool handler,     *)
(* the tool-call dispatcher and the auto-optimization scheduler.           *)
(*                                                                         *)
(* Scores in [0,1] are fixed-point integers in units of 1/One.             *)
(* Times are milliseconds, as returned by Date.now().                      *)
(***************************************************************************)
EXTENDS Integers, Sequences, FiniteSets, TLC

VARIABLES
  state,      \* ServerState owned by ServerStateManager
  now,        \* Date.now()
  timers,     \* the setTimeout / setInterval armed by startAutoOptimization
  crashed,    \* an exception escaped a timer callback
  lastEvent,  \* description of the step just taken
  hist        \* history of scheduler attempts, dispatched calls and executed runs

vars == <<state, now, timers, crashed, lastEvent, hist>>

----------------------------------------------------------------------------
\* Bounds of the model

MaxTime == 305000
SchedMaxTime == 1800000
MaxCalls == 1
MaxFactsLen == 7
MaxErrors == 6
MaxAdds == 5
MaxOptFacts == 12
MaxToolCalls == 2
MaxNesting == 12
MaxTasks == 2
MaxInteractions == 2
MaxAdaptations == 3

\* Configured collection sizes of the store under test (StateManagerConfig);
\* the server itself runs with the defaults 1000 / 500 / 200 / 100 / 50
MaxHistorySize == 2
MaxFeedbackSize == 2
MaxFactsSize == 5
MaxPatternsSize == 5
MaxGoalsSize == 2

\* Program constants

One == 1000
Interval == 300000
StartupDelay == 5000
FailureThreshold == 5
NudgeProductivity == 50
NudgeEfficiency == 30
EfficiencyTarget == 850

----------------------------------------------------------------------------
\* Helpers

Null == <<>>
Some(x) == <<x>>

Min(a, b) == IF a < b THEN a ELSE b
Max(a, b) == IF a > b THEN a ELSE b

RECURSIVE SumOver(_, _)
SumOver(f, D) ==
  IF D = {} THEN 0
  ELSE LET k == CHOOSE x \in D : TRUE IN f[k] + SumOver(f, D \ {k})

\* Object.values(record).reduce((a, b) => a + b, 0)
SumValues(f) == SumOver(f, DOMAIN f)

\* record[key] || 0
GetOr0(f, k) == IF k \in DOMAIN f THEN f[k] ELSE 0

Put(f, k, v) == [x \in (DOMAIN f) \cup {k} |-> IF x = k THEN v ELSE f[x]]

----------------------------------------------------------------------------
\* JavaScript values carried by tool arguments.  num is the value of a number
\* (scores in units of 1/One) or of a boolean (1 / 0); str is the content of a
\* string; chars spells out, character by character, a string whose content
\* the program searches; items are the elements of an array.

JsValue(type, num, str, chars, items) ==
  [type |-> type, num |-> num, str |-> str, chars |-> chars, items |-> items]

Undefined == JsValue("undefined", 0, "", <<>>, <<>>)
JsNull == JsValue("null", 0, "", <<>>, <<>>)
JsBool(b) == JsValue("boolean", IF b THEN 1 ELSE 0, "", <<>>, <<>>)
JsNum(n) == JsValue("number", n, "", <<>>, <<>>)
JsStr(str) == JsValue("string", 0, str, <<>>, <<>>)
JsText(chars) == JsValue("string", 0, IF chars = <<>> THEN "" ELSE "text", chars, <<>>)
JsArr(items) == JsValue("array", 0, "", <<>>, items)

\* typeof value
typeOf(value) ==
  IF value.type \in {"null", "array"} THEN "object" ELSE value.type

\* Array.isArray(value)
isArray(value) == value.type = "array"

\* An object is a record holding its own enumerable properties next to the
\* tag type |-> "object"
JsObj(entries) ==
  [k \in (DOMAIN entries) \cup {"type"} |->
     IF k = "type" THEN "object" ELSE entries[k]]

\* Object.keys(obj)
Keys(obj) == (DOMAIN obj) \ {"type"}

\* Object.entries(obj), as a function of the key
Props(obj) == [k \in Keys(obj) |-> obj[k]]

\* obj[key], undefined for a property the object does not have
Get(obj, key) == IF key \in DOMAIN obj THEN obj[key] ELSE Undefined

\* A destructuring default: = value unless the property is undefined
Default(value, default) == IF value.type = "undefined" THEN default ELSE value

\* Truthiness: undefined, null, false, 0 and "" are falsy
truthy(value) ==
  CASE value.type \in {"undefined", "null"} -> FALSE
    [] value.type \in {"boolean", "number"} -> value.num # 0
    [] value.type = "string" -> value.str # ""
    [] OTHER -> TRUE

UpperCase == <<"A", "B", "D", "E", "G", "I", "K", "M", "O", "P", "R", "T", "V">>
LowerCase == <<"a", "b", "d", "e", "g", "i", "k", "m", "o", "p", "r", "t", "v">>

\* String.prototype.toLowerCase, character by character
toLowerCase(chars) ==
  [i \in 1..Len(chars) |->
     IF \E k \in 1..Len(UpperCase) : UpperCase[k] = chars[i]
     THEN LowerCase[CHOOSE k \in 1..Len(UpperCase) : UpperCase[k] = chars[i]]
     ELSE chars[i]]

\* String.prototype.includes
includes(chars, searchString) ==
  \E i \in 1..(Len(chars) - Len(searchString) + 1) :
    SubSeq(chars, i, i + Len(searchString) - 1) = searchString

----------------------------------------------------------------------------
\* Input sanitization (utils/sanitization).  A result tells whether the call
\* threw, and the value it returned otherwise.

MAX_DEPTH == 10

DANGEROUS_PROPS == {"__proto__", "constructor", "prototype"}

SanitizeError == [thrown |-> TRUE, value |-> Undefined]

\* A sanitizer that cleans the outermost object only
deepSanitize_TopLevelOnly(obj, depth) ==
  IF depth > MAX_DEPTH THEN SanitizeError
  ELSE IF typeOf(obj) # "object" \/ obj.type \in {"null", "array"}
  THEN [thrown |-> FALSE, value |-> obj]
  ELSE [thrown |-> FALSE,
        value |-> [k \in (DOMAIN obj) \ DANGEROUS_PROPS |-> obj[k]]]

RECURSIVE deepSanitize(_, _)
deepSanitize(obj, depth) ==
  IF depth > MAX_DEPTH THEN SanitizeError
  ELSE IF typeOf(obj) # "object" \/ obj.type = "null"
  THEN [thrown |-> FALSE, value |-> obj]
  ELSE IF isArray(obj)
  THEN LET mapped == { <<i, deepSanitize(obj.items[i], depth + 1)>> :
                         i \in 1..Len(obj.items) }
           item(i) == (CHOOSE pair \in mapped : pair[1] = i)[2]
       IN IF \E pair \in mapped : pair[2].thrown THEN SanitizeError
          ELSE [ thrown |-> FALSE,
                 value |-> JsArr([i \in 1..Len(obj.items) |-> item(i).value]) ]
  ELSE LET kept == Keys(obj) \ DANGEROUS_PROPS
           sanitized == { <<key, deepSanitize(obj[key], depth + 1)>> : key \in kept }
           property(key) == (CHOOSE pair \in sanitized : pair[1] = key)[2]
       IN IF \E pair \in sanitized : pair[2].thrown THEN SanitizeError
          ELSE [ thrown |-> FALSE,
                 value |-> JsObj([key \in kept |-> property(key).value]) ]

----------------------------------------------------------------------------
\* Initial state of the store

SeedFacts ==
  << [id |-> <<"greeting_1", 0>>, confidence |-> 800, source |-> "pattern_analysis"],
     [id |-> <<"efficiency_1", 0>>, confidence |-> 900, source |-> "metrics_analysis"],
     [id |-> <<"productivity_1", 0>>, confidence |-> 950, source |-> "performance_analysis"],
     [id |-> <<"optimization_1", 0>>, confidence |-> 900, source |-> "system_analysis"] >>

SeedPatterns ==
  << [pattern |-> "feedback_positive", response_type |-> "acknowledgment", effectiveness |-> 850],
     [pattern |-> "feedback_negative", response_type |-> "apology_and_improve", effectiveness |-> 750],
     [pattern |-> "tool_usage_success", response_type |-> "enhance_tool_capabilities", effectiveness |-> 900],
     [pattern |-> "productivity_focus", response_type |-> "prioritize_efficiency", effectiveness |-> 880] >>

createInitialState(t) ==
  [ interactionHistory |-> <<>>,
    feedbackData |-> <<>>,
    performanceMetrics |->
      [ totalInteractions |-> 0,
        successfulInteractions |-> 0,
        averageResponseTime |-> 0,
        toolUsageCount |-> <<>>,
        productivityScore |-> 750,
        lastOptimization |-> Null,
        errorCount |-> 0,
        lastError |-> Null ],
    productivityMetrics |->
      [ tasksCompleted |-> 0,
        efficiencyScore |-> 800,
        toolEffectiveness |-> <<>>,
        userGoals |-> <<>>,
        completedGoals |-> <<>> ],
    knowledgeBase |->
      [ facts |-> SeedFacts,
        patterns |-> SeedPatterns,
        preferences |->
          [ communicationStyle |-> JsStr("professional"),
            responseDetailLevel |-> JsStr("balanced"),
            proactivityLevel |-> Undefined,
            learningRate |-> Undefined,
            customPreferences |-> Undefined ] ],
    autoOptimization |->
      [ enabled |-> TRUE,
        interval |-> Interval,
        lastRun |-> t,
        targetMetrics |->
          [ minSuccessRate |-> 850,
            minToolUsage |-> 700,
            targetProductivity |-> 900 ] ] ]

----------------------------------------------------------------------------
\* ServerStateManager: bounded collections

config ==
  [ maxHistorySize |-> MaxHistorySize,
    maxFeedbackSize |-> MaxFeedbackSize,
    maxFactsSize |-> MaxFactsSize,
    maxPatternsSize |-> MaxPatternsSize,
    maxGoalsSize |-> MaxGoalsSize ]

\* A pruning loop that stops one entry early
RECURSIVE pruneArray_OffByOne(_, _)
pruneArray_OffByOne(array, maxSize) ==
  IF Len(array) > maxSize + 1 THEN pruneArray_OffByOne(Tail(array), maxSize)
  ELSE array

\* while (array.length > maxSize) array.shift()
RECURSIVE pruneArray(_, _)
pruneArray(array, maxSize) ==
  IF Len(array) > maxSize THEN pruneArray(Tail(array), maxSize) ELSE array

\* A history that drops the entry just added instead of the oldest one
addInteraction_DropsNewest(s, entry) ==
  [s EXCEPT
     !.interactionHistory =
         IF Len(@) >= config.maxHistorySize THEN @ ELSE Append(@, entry),
     !.performanceMetrics.totalInteractions = @ + 1,
     !.performanceMetrics.successfulInteractions =
         IF entry.success = "true" THEN @ + 1 ELSE @]

addInteraction(s, entry) ==
  [s EXCEPT
     !.interactionHistory = pruneArray(Append(@, entry), config.maxHistorySize),
     !.performanceMetrics.totalInteractions = @ + 1,
     !.performanceMetrics.successfulInteractions =
         IF entry.success = "true" THEN @ + 1 ELSE @]

addFeedback(s, entry) ==
  [s EXCEPT !.feedbackData = pruneArray(Append(@, entry), config.maxFeedbackSize)]

FactSources ==
  { "pattern_analysis", "metrics_analysis", "performance_analysis",
    "system_analysis", "user_feedback", "context_analysis",
    "behavioral_adaptation", "automatic_optimization" }

isFactSource(value) == value \in FactSources

isValidConfidence(value) == value >= 0 /\ value <= One

\* A method that stores whatever fact it is given
addFact_Unchecked(s, fact) ==
  [ state |-> [s EXCEPT !.knowledgeBase.facts =
                 pruneArray(Append(@, fact), config.maxFactsSize)],
    thrown |-> FALSE ]

\* thrown tells that the method raised instead of appending
addFact(s, fact) ==
  IF ~isValidConfidence(fact.confidence) \/ ~isFactSource(fact.source)
  THEN [ state |-> s, thrown |-> TRUE ]
  ELSE [ state |-> [s EXCEPT !.knowledgeBase.facts =
                       pruneArray(Append(@, fact), config.maxFactsSize)],
         thrown |-> FALSE ]

addPattern(s, pattern) ==
  [s EXCEPT !.knowledgeBase.patterns =
               pruneArray(Append(@, pattern), config.maxPatternsSize)]

addGoal(s, goal) ==
  [s EXCEPT !.productivityMetrics.userGoals =
               pruneArray(Append(@, goal), config.maxGoalsSize)]

----------------------------------------------------------------------------
\* ServerStateManager mutators used by the dispatcher and the scheduler

trackToolUsage(s, toolName, success) ==
  LET cnt == s.performanceMetrics.toolUsageCount
      eff == s.productivityMetrics.toolEffectiveness
      old == IF toolName \in DOMAIN eff THEN eff[toolName]
             ELSE [uses |-> 0, success |-> 0]
      new == [uses |-> old.uses + 1,
              success |-> IF success THEN old.success + 1 ELSE old.success]
  IN [s EXCEPT !.performanceMetrics.toolUsageCount =
                   Put(cnt, toolName, GetOr0(cnt, toolName) + 1),
               !.productivityMetrics.toolEffectiveness =
                   Put(eff, toolName, new)]

\* averageResponseTime is kept in units of 1/2^MaxCalls ms, so that the
\* halving stays exact for MaxCalls updates
RtUnit == 2 ^ (MaxCalls + 1)

updateAverageResponseTime(s, responseTime) ==
  [s EXCEPT !.performanceMetrics.averageResponseTime =
               (@ + responseTime * RtUnit) \div 2]

\* A record of the failure that keeps the count only
recordError_CountsOnly(s, error) ==
  [s EXCEPT !.performanceMetrics.errorCount = @ + 1]

recordError(s, error) ==
  [s EXCEPT !.performanceMetrics.errorCount = @ + 1,
            !.performanceMetrics.lastError = Some(error)]

recordOptimization(s, t) ==
  [s EXCEPT !.performanceMetrics.lastOptimization = Some(t)]

setAutoOptimizationEnabled(s, enabled) ==
  [s EXCEPT !.autoOptimization.enabled = enabled]

----------------------------------------------------------------------------
\* auto_optimize tool handler

Priorities == {"performance", "productivity", "tool_usage", "balanced"}

\* successful / total compared without the guard: 0 / 0 is NaN, and NaN is
\* below nothing
SuccessRateLow_Unguarded(s) ==
  /\ s.performanceMetrics.totalInteractions > 0
  /\ s.performanceMetrics.successfulInteractions * One
       < s.autoOptimization.targetMetrics.minSuccessRate
           * s.performanceMetrics.totalInteractions

\* successRate < minSuccessRate, with successRate = 0 when there are no
\* interactions
SuccessRateLow(s) ==
  LET total == s.performanceMetrics.totalInteractions
      succ == s.performanceMetrics.successfulInteractions
  IN IF total > 0
     THEN succ * One < s.autoOptimization.targetMetrics.minSuccessRate * total
     ELSE 0 < s.autoOptimization.targetMetrics.minSuccessRate

\* avgToolUsage < minToolUsage,
\* with avgToolUsage = totalToolUsage / max(totalInteractions, 1)
ToolUsageLow(s) ==
  SumValues(s.performanceMetrics.toolUsageCount) * One
    < s.autoOptimization.targetMetrics.minToolUsage
        * Max(s.performanceMetrics.totalInteractions, 1)

\* The interval gate with the comparison turned into <=
shouldSkip_Strict(s, force, t) ==
  ~force /\ (t - s.autoOptimization.lastRun) <= s.autoOptimization.interval

\* !force && (now - lastRun) < interval
shouldSkip(s, force, t) ==
  ~force /\ (t - s.autoOptimization.lastRun) < s.autoOptimization.interval

\* A skip that restarts the interval
skipResult_TouchesLastRun(s, t) ==
  [ state |-> [s EXCEPT !.autoOptimization.lastRun = t],
    skipped |-> TRUE,
    nextRun |-> t + s.autoOptimization.interval,
    optimizations |-> <<>> ]

\* "skipped (run too recently)", next optimization at lastRun + interval
skipResult(s, t) ==
  [ state |-> s,
    skipped |-> TRUE,
    nextRun |-> s.autoOptimization.lastRun + s.autoOptimization.interval,
    optimizations |-> <<>> ]

\* A run that passes the gate without writing lastRun
markRun_KeepsLastRun(s, t) == s

\* A run that also switches the scheduler back on
markRun_Reenables(s, t) ==
  [s EXCEPT !.autoOptimization.lastRun = t, !.autoOptimization.enabled = TRUE]

\* state.autoOptimization.lastRun = now
markRun(s, t) ==
  [s EXCEPT !.autoOptimization.lastRun = t]

\* The optimizations flagged for the given priority
flagOptimizations(s, priority) ==
  LET perf ==
        IF priority \in {"performance", "balanced"}
        THEN (IF SuccessRateLow(s) THEN <<"success_rate">> ELSE <<>>)
             \o (IF ToolUsageLow(s) THEN <<"tool_usage">> ELSE <<>>)
        ELSE <<>>
      prod ==
        IF priority \in {"productivity", "balanced"}
        THEN (IF s.productivityMetrics.efficiencyScore < EfficiencyTarget
              THEN <<"efficiency">> ELSE <<>>)
             \o (IF s.performanceMetrics.productivityScore
                      < s.autoOptimization.targetMetrics.targetProductivity
                 THEN <<"productivity">> ELSE <<>>)
        ELSE <<>>
  IN perf \o prod

OptimizationFact ==
  [id |-> <<"auto_opt", 0>>, confidence |-> 900, source |-> "automatic_optimization"]

\* A nudge without the cap at 1.0
applyOptimizations_NoCap(s, optimizations) ==
  IF Len(optimizations) > 0
  THEN [s EXCEPT
          !.knowledgeBase.facts = Append(@, OptimizationFact),
          !.performanceMetrics.productivityScore = @ + NudgeProductivity,
          !.productivityMetrics.efficiencyScore = @ + NudgeEfficiency]
  ELSE s

\* if (optimizations.length > 0) { push fact; nudge both scores }
applyOptimizations(s, optimizations) ==
  IF Len(optimizations) > 0
  THEN [s EXCEPT
          !.knowledgeBase.facts = Append(@, OptimizationFact),
          !.performanceMetrics.productivityScore = Min(One, @ + NudgeProductivity),
          !.productivityMetrics.efficiencyScore = Min(One, @ + NudgeEfficiency)]
  ELSE s

\* A handler that leaves lastRun alone when the run was forced
handleAutoOptimize_ForcedRunUntimed(s, priority, force, t) ==
  IF shouldSkip(s, force, t)
  THEN skipResult(s, t)
  ELSE
    LET s1 == IF force THEN s ELSE markRun(s, t)
        optimizations == flagOptimizations(s1, priority)
    IN [ state |-> applyOptimizations(s1, optimizations),
         skipped |-> FALSE,
         nextRun |-> t + s.autoOptimization.interval,
         optimizations |-> optimizations ]

handleAutoOptimize(s, priority, force, t) ==
  IF shouldSkip(s, force, t)
  THEN skipResult(s, t)
  ELSE
    LET s1 == markRun(s, t)
        optimizations == flagOptimizations(s1, priority)
    IN [ state |-> applyOptimizations(s1, optimizations),
         skipped |-> FALSE,
         nextRun |-> t + s.autoOptimization.interval,
         optimizations |-> optimizations ]

----------------------------------------------------------------------------
\* learn_from_interaction tool handler.  A handler result tells the state it
\* leaves, whether it threw, and whether it returned an error result
\* (isError).

\* A validation that lets any value of success through
interactionInvalid_AnySuccess(interaction) ==
  \/ ~truthy(interaction)
  \/ ~truthy(interaction.userInput) \/ typeOf(interaction.userInput) # "string"
  \/ ~truthy(interaction.aiResponse) \/ typeOf(interaction.aiResponse) # "string"

\* The four checks that end in throw new Error(...)
interactionInvalid(interaction) ==
  \/ ~truthy(interaction)
  \/ ~truthy(interaction.userInput) \/ typeOf(interaction.userInput) # "string"
  \/ ~truthy(interaction.aiResponse) \/ typeOf(interaction.aiResponse) # "string"
  \/ /\ typeOf(interaction.success) # "undefined"
     /\ typeOf(interaction.success) # "boolean"

\* Only success: true counted as a success
countsAsSuccess_OnlyTrue(success) == truthy(success)

\* interaction.success !== false
countsAsSuccess(success) == ~(success.type = "boolean" /\ success.num = 0)

\* state.interactionHistory.push(...); totalInteractions++; ...
storeInteraction(s, interaction, t) ==
  [s EXCEPT
     !.interactionHistory =
         Append(@, [id |-> <<"interaction", t>>, success |-> interaction.success]),
     !.performanceMetrics.totalInteractions = @ + 1,
     !.performanceMetrics.successfulInteractions =
         IF countsAsSuccess(interaction.success) THEN @ + 1 ELSE @]

FeedbackFact(t) ==
  [id |-> <<"fact", t>>, confidence |-> 700, source |-> "user_feedback"]

AvoidPattern(interaction) ==
  [pattern |-> "avoid_response_type", response_type |-> interaction.aiResponse.str,
   effectiveness |-> 200]

ContextFact(t) ==
  [id |-> <<"context", t>>, confidence |-> 600, source |-> "context_analysis"]

Good == <<"g", "o", "o", "d">>
Great == <<"g", "r", "e", "a", "t">>
Bad == <<"b", "a", "d">>
Improve == <<"i", "m", "p", "r", "o", "v", "e">>

\* The negative check made only when the positive one did not fire
recognizePatterns_Exclusive(s, interaction, t) ==
  LET lower == toLowerCase(interaction.userFeedback.chars)
  IN IF includes(lower, Good) \/ includes(lower, Great)
     THEN [s EXCEPT !.knowledgeBase.facts = Append(@, FeedbackFact(t))]
     ELSE IF includes(lower, Bad) \/ includes(lower, Improve)
     THEN [s EXCEPT !.knowledgeBase.patterns = Append(@, AvoidPattern(interaction))]
     ELSE s

\* The two substring checks on userFeedback.toLowerCase()
recognizePatterns(s, interaction, t) ==
  LET lower == toLowerCase(interaction.userFeedback.chars)
      s1 == IF includes(lower, Good) \/ includes(lower, Great)
            THEN [s EXCEPT !.knowledgeBase.facts = Append(@, FeedbackFact(t))]
            ELSE s
  IN IF includes(lower, Bad) \/ includes(lower, Improve)
     THEN [s1 EXCEPT !.knowledgeBase.patterns = Append(@, AvoidPattern(interaction))]
     ELSE s1

\* if (interaction.context) state.knowledgeBase.facts.push(contextFact)
learnFromContext(s, interaction, t) ==
  IF truthy(interaction.context)
  THEN [s EXCEPT !.knowledgeBase.facts = Append(@, ContextFact(t))]
  ELSE s

handleLearnFromInteraction(s, args, t) ==
  LET interaction == args.interaction
  IN IF interactionInvalid(interaction)
     THEN [ state |-> s, thrown |-> TRUE, isError |-> FALSE,
            message |-> "Invalid interaction" ]
     ELSE
       LET s1 == storeInteraction(s, interaction, t)
           userFeedback == interaction.userFeedback
       IN IF ~truthy(userFeedback)
          THEN [ state |-> learnFromContext(s1, interaction, t),
                 thrown |-> FALSE, isError |-> FALSE, message |-> "" ]
          ELSE
            LET s2 == [s1 EXCEPT !.feedbackData =
                                    Append(@, [feedback |-> userFeedback])]
            IN IF typeOf(userFeedback) # "string"
               THEN \* userFeedback.toLowerCase is not a function
                    [ state |-> s2, thrown |-> TRUE, isError |-> FALSE,
                      message |-> "toLowerCase is not a function" ]
               ELSE [ state |-> learnFromContext(
                                  recognizePatterns(s2, interaction, t),
                                  interaction, t),
                      thrown |-> FALSE, isError |-> FALSE, message |-> "" ]

----------------------------------------------------------------------------
\* adapt_behavior tool handler

PreferenceFields ==
  {"communicationStyle", "responseDetailLevel", "proactivityLevel", "learningRate"}

\* The enum declared for each preference field by the input schema
PreferenceEnums ==
  [ communicationStyle |-> {"formal", "casual", "technical", "friendly", "professional"},
    responseDetailLevel |-> {"concise", "balanced", "detailed", "comprehensive"},
    proactivityLevel |-> {"passive", "responsive", "proactive", "very_proactive"},
    learningRate |-> {"conservative", "moderate", "aggressive"} ]

\* Object.assign(target, source)
ObjectAssign(target, source) ==
  [k \in (DOMAIN target) \cup (DOMAIN source) |->
     IF k \in DOMAIN source THEN source[k] ELSE target[k]]

AdaptationFact(t) ==
  [id |-> <<"adaptation", t>>, confidence |-> 900, source |-> "behavioral_adaptation"]

\* A merge that overwrites every field, supplied or not
mergePreferences_Overwrite(preferences, adaptation) ==
  [preferences EXCEPT
     !.communicationStyle = adaptation.communicationStyle,
     !.responseDetailLevel = adaptation.responseDetailLevel,
     !.proactivityLevel = adaptation.proactivityLevel,
     !.learningRate = adaptation.learningRate,
     !.customPreferences =
        IF truthy(adaptation.customPreferences)
        THEN JsObj(ObjectAssign(IF truthy(@) THEN Props(@) ELSE <<>>,
                                Props(adaptation.customPreferences)))
        ELSE @]

\* if (adaptation.field) preferences.field = adaptation.field, field by field
mergePreferences(preferences, adaptation) ==
  [preferences EXCEPT
     !.communicationStyle =
        IF truthy(adaptation.communicationStyle)
        THEN adaptation.communicationStyle ELSE @,
     !.responseDetailLevel =
        IF truthy(adaptation.responseDetailLevel)
        THEN adaptation.responseDetailLevel ELSE @,
     !.proactivityLevel =
        IF truthy(adaptation.proactivityLevel)
        THEN adaptation.proactivityLevel ELSE @,
     !.learningRate =
        IF truthy(adaptation.learningRate) THEN adaptation.learningRate ELSE @,
     !.customPreferences =
        IF truthy(adaptation.customPreferences)
        THEN JsObj(ObjectAssign(IF truthy(@) THEN Props(@) ELSE <<>>,
                                Props(adaptation.customPreferences)))
        ELSE @]

handleAdaptBehavior(s, args, t) ==
  LET adaptation == args.adaptation
  IN IF ~truthy(adaptation) \/ typeOf(adaptation) # "object" \/ isArray(adaptation)
     THEN [ state |-> s, thrown |-> FALSE, isError |-> TRUE ]
     ELSE [ state |->
              [s EXCEPT
                 !.knowledgeBase.preferences = mergePreferences(@, adaptation),
                 !.knowledgeBase.facts = Append(@, AdaptationFact(t))],
            thrown |-> FALSE, isError |-> FALSE ]

----------------------------------------------------------------------------
\* Ratios reported by the tools (utils/metrics and the report handlers).  A
\* quotient is a number in units of 1/One, rounded to the nearest unit.

NaN == JsValue("number", 0, "NaN", <<>>, <<>>)
Infinity == JsValue("number", 0, "Infinity", <<>>, <<>>)

\* a / b: dividing by 0 gives NaN (0 / 0) or Infinity
Divide(a, b) ==
  IF b = 0 THEN (IF a = 0 THEN NaN ELSE Infinity)
  ELSE JsNum((2 * a * One + b) \div (2 * b))

\* Array.prototype.slice(-n)
sliceLast(array, n) == SubSeq(array, Max(1, Len(array) - n + 1), Len(array))

\* total > 0 ? successful / total : 0
calculateSuccessRate(total, successful) ==
  IF total > 0 THEN Divide(successful, total) ELSE JsNum(0)

\* A success rate computed without looking at the number of interactions
successRateOr_Unguarded(s, sentinel) ==
  Divide(s.performanceMetrics.successfulInteractions,
         s.performanceMetrics.totalInteractions)

\* totalInteractions > 0 ? successfulInteractions / totalInteractions : sentinel
successRateOr(s, sentinel) ==
  IF s.performanceMetrics.totalInteractions > 0
  THEN Divide(s.performanceMetrics.successfulInteractions,
              s.performanceMetrics.totalInteractions)
  ELSE sentinel

\* stats.uses > 0 ? stats.success / stats.uses : sentinel
toolRate(stats, sentinel) ==
  IF stats.uses > 0 THEN Divide(stats.success, stats.uses) ELSE sentinel

\* Object.entries(toolEffectiveness).map(([tool, stats]) => rate)
toolStats(toolEffectiveness, sentinel) ==
  [tool \in DOMAIN toolEffectiveness |-> toolRate(toolEffectiveness[tool], sentinel)]

\* totalUsage / Math.max(totalInteractions, 1)
getAverageToolUsage(s) ==
  Divide(SumValues(s.performanceMetrics.toolUsageCount),
         Max(s.performanceMetrics.totalInteractions, 1))

\* What a report handler puts into its text: the ratios and the counts by
\* label, and the messages standing in for data that is absent
Report(rates, counts, messages) ==
  [rates |-> rates, counts |-> counts, messages |-> messages]

NoReport == Report(<<>>, <<>>, {})

Rates(name, f) == [label \in {<<name, k>> : k \in DOMAIN f} |-> f[label[2]]]

Rate(name, value) == [label \in {<<name, "">>} |-> value]

\* The rows of formatToolStats, or its message when there is no entry
formatToolStats(effectiveness) ==
  Report(Rates("tool", toolStats(effectiveness, JsStr("N/A"))), <<>>,
         IF DOMAIN effectiveness = {} THEN {"No tool usage data available"}
         ELSE {})

----------------------------------------------------------------------------
\* track_productivity tool handler

CompleteTaskBonus == 20

\* The add_task checks that return createErrorResult(...)
taskRejected(task) ==
  \/ ~truthy(task)
  \/ ~truthy(task.name) \/ typeOf(task.name) # "string"
  \/ typeOf(task.efficiency) # "undefined" /\ typeOf(task.efficiency) # "number"
  \/ /\ typeOf(task.efficiency) # "undefined"
     /\ (task.efficiency.num < 0 \/ task.efficiency.num > One)
  \/ /\ truthy(task.toolsUsed)
     /\ \/ ~isArray(task.toolsUsed)
        \/ \E i \in 1..Len(task.toolsUsed.items) :
             typeOf(task.toolsUsed.items[i]) # "string"

\* task.toolsUsed.forEach(tool => { uses++; if (task.success !== false) success++ })
RECURSIVE trackTools(_, _, _)
trackTools(toolEffectiveness, tools, success) ==
  IF tools = <<>> THEN toolEffectiveness
  ELSE
    LET tool == Head(tools).str
        old == IF tool \in DOMAIN toolEffectiveness THEN toolEffectiveness[tool]
               ELSE [uses |-> 0, success |-> 0]
        new == [uses |-> old.uses + 1,
                success |-> IF countsAsSuccess(success) THEN old.success + 1
                            ELSE old.success]
    IN trackTools(Put(toolEffectiveness, tool, new), Tail(tools), success)

\* efficiencyScore * 0.9 + efficiency * 0.1, rounded down to 1/One
foldEfficiency(efficiencyScore, efficiency) ==
  (efficiencyScore * 9 + efficiency) \div 10

addTask(s, task) ==
  [s EXCEPT
     !.productivityMetrics.tasksCompleted = @ + 1,
     !.productivityMetrics.toolEffectiveness =
        IF truthy(task.toolsUsed)
        THEN trackTools(@, task.toolsUsed.items, task.success) ELSE @,
     !.productivityMetrics.efficiencyScore =
        IF truthy(task.efficiency) THEN foldEfficiency(@, task.efficiency.num)
        ELSE @]

\* A bonus added without the cap at 1.0
completeTask_NoCap(s) ==
  [s EXCEPT
     !.productivityMetrics.tasksCompleted = @ + 1,
     !.performanceMetrics.productivityScore = @ + CompleteTaskBonus]

completeTask(s) ==
  [s EXCEPT
     !.productivityMetrics.tasksCompleted = @ + 1,
     !.performanceMetrics.productivityScore = Min(One, @ + CompleteTaskBonus)]

\* newGoal, with priority: goal.priority || 'medium'
setGoal(s, goal, t) ==
  [s EXCEPT !.productivityMetrics.userGoals =
     Append(@, [id |-> <<"goal", t>>,
                description |-> goal.description,
                priority |-> IF truthy(goal.priority) THEN goal.priority
                             ELSE JsStr("medium")])]

\* toolStats || 'No tool usage data yet'
getMetrics(s) ==
  Report(Rates("tool", toolStats(s.productivityMetrics.toolEffectiveness,
                                 JsStr("N/A"))),
         <<>>,
         IF DOMAIN s.productivityMetrics.toolEffectiveness = {}
         THEN {"No tool usage data yet"} ELSE {})

\* toolStats || 'No tool usage data available'
analyzeEfficiency(s) ==
  Report(Rates("tool", toolStats(s.productivityMetrics.toolEffectiveness,
                                 JsStr("N/A"))),
         <<>>,
         IF DOMAIN s.productivityMetrics.toolEffectiveness = {}
         THEN {"No tool usage data available"} ELSE {})

handleTrackProductivity(s, args, t) ==
  LET action == IF args.action.type = "undefined" THEN "get_metrics"
                ELSE args.action.str
      ok(s1) == [ state |-> s1, thrown |-> FALSE, isError |-> FALSE,
                  report |-> NoReport ]
      error == [ state |-> s, thrown |-> FALSE, isError |-> TRUE,
                 report |-> NoReport ]
  IN CASE action = "add_task" ->
            IF taskRejected(args.task) THEN error ELSE ok(addTask(s, args.task))
       [] action = "complete_task" -> ok(completeTask(s))
       [] action = "set_goal" ->
            IF ~truthy(args.goal) THEN error ELSE ok(setGoal(s, args.goal, t))
       [] action = "get_metrics" -> [ok(s) EXCEPT !.report = getMetrics(s)]
       [] action = "analyze_efficiency" ->
            [ok(s) EXCEPT !.report = analyzeEfficiency(s)]
       [] OTHER -> error

----------------------------------------------------------------------------
\* Report handlers: get_learning_insights, optimize_performance and
\* enhance_tool_usage

Returned(s, report) ==
  [ state |-> s, thrown |-> FALSE, isError |-> FALSE, message |-> "",
    report |-> report ]

Thrown(s, message) ==
  [ state |-> s, thrown |-> TRUE, isError |-> FALSE, message |-> message,
    report |-> NoReport ]

\* array.filter(...).length, given the indices that pass the filter
Count(indices) == Cardinality(indices)

\* An analysis that books itself as a tool use
handleEnhanceToolUsage_TracksItself(s, args) ==
  Returned(trackToolUsage(s, "enhance_tool_usage", TRUE), NoReport)

\* Every tool of the model fits the top-5 cut of the usage table
handleEnhanceToolUsage(s, args) ==
  LET analysisType == Default(Get(args, "analysisType"), JsStr("comprehensive")).str
      toolUsage == s.performanceMetrics.toolUsageCount
      totalUsage == SumValues(toolUsage)
      effectiveness == s.productivityMetrics.toolEffectiveness
      usagePatterns == analysisType \in {"usage_patterns", "comprehensive"}
      effectivenessPart == analysisType \in {"effectiveness", "comprehensive"}
      recommendations == analysisType \in {"recommendations", "comprehensive"}
      usageStats ==
        IF usagePatterns /\ totalUsage > 0
        THEN Rates("usage", [tool \in DOMAIN toolUsage |->
                               Divide(toolUsage[tool], totalUsage)])
        ELSE <<>>
      effectivenessStats ==
        IF effectivenessPart /\ DOMAIN effectiveness # {}
        THEN Rates("effectiveness", toolStats(effectiveness, JsStr("0")))
        ELSE <<>>
      toolUsageRate ==
        IF recommendations /\ getAverageToolUsage(s).num < One \div 2
        THEN Rate("toolUsageRate", getAverageToolUsage(s))
        ELSE <<>>
  IN Returned(s,
       Report(usageStats @@ effectivenessStats @@ toolUsageRate, <<>>,
              (IF usagePatterns /\ totalUsage = 0
               THEN {"No usage data available"} ELSE {})
              \cup (IF effectivenessPart /\ DOMAIN effectiveness = {}
                    THEN {"No effectiveness data available"} ELSE {})))

handleGetLearningInsights(s, args) ==
  LET detailLevel == Default(Get(args, "detailLevel"), JsStr("summary")).str
      focusArea == Default(Get(args, "focusArea"), JsStr("all")).str
      performance == focusArea \in {"all", "performance"}
      patterns == focusArea \in {"all", "patterns"}
      knowledge == focusArea \in {"all", "knowledge"}
      recent == detailLevel \in {"detailed", "full"}
      effectivePatterns ==
        {i \in 1..Len(s.knowledgeBase.patterns) :
           s.knowledgeBase.patterns[i].effectiveness > 700}
      highConfidenceFacts ==
        {i \in 1..Len(s.knowledgeBase.facts) :
           s.knowledgeBase.facts[i].confidence > 800}
      recentInteractions == sliceLast(s.interactionHistory, 5)
  IN Returned(s,
       Report(IF performance THEN Rate("successRate", successRateOr(s, JsStr("0")))
              ELSE <<>>,
              (IF performance
               THEN Rate("feedbackEntries", Len(s.feedbackData)) ELSE <<>>)
              @@ (IF patterns
                  THEN Rate("effectivePatterns", Count(effectivePatterns))
                  ELSE <<>>)
              @@ (IF knowledge
                  THEN Rate("highConfidenceFacts", Count(highConfidenceFacts))
                  ELSE <<>>)
              @@ (IF recent
                  THEN Rate("recentInteractions", Len(recentInteractions))
                  ELSE <<>>),
              (IF patterns /\ effectivePatterns = {}
               THEN {"None yet"} ELSE {})
              \cup (IF recent /\ recentInteractions = <<>>
                    THEN {"- No recent interactions"} ELSE {})))

handleOptimizePerformance(s, args) ==
  LET optimizationType ==
        Default(Get(args, "optimizationType"), JsStr("comprehensive")).str
      responseTime == optimizationType \in {"response_time", "comprehensive"}
      accuracy == optimizationType \in {"accuracy", "comprehensive"}
      userSatisfaction == optimizationType \in {"user_satisfaction", "comprehensive"}
      efficiency == optimizationType \in {"efficiency", "comprehensive"}
      recentFeedback == sliceLast(s.feedbackData, 10)
      patterns == s.knowledgeBase.patterns
      lowConfidenceFacts ==
        {i \in 1..Len(s.knowledgeBase.facts) :
           s.knowledgeBase.facts[i].confidence < 500}
      positiveFeedback ==
        {i \in 1..Len(recentFeedback) :
           LET lower == toLowerCase(recentFeedback[i].feedback.chars)
           IN includes(lower, Good) \/ includes(lower, Great)}
      duplicatePatterns ==
        {i \in 1..Len(patterns) :
           Count({j \in 1..Len(patterns) : patterns[j].pattern = patterns[i].pattern})
             > 1}
  IN IF /\ userSatisfaction
        /\ \E i \in 1..Len(recentFeedback) :
             typeOf(recentFeedback[i].feedback) # "string"
     THEN \* f.feedback.toLowerCase is not a function
          Thrown(s, "toLowerCase is not a function")
     ELSE Returned(s,
            Report(IF responseTime
                   THEN Rate("successRate", successRateOr(s, JsNum(0))) ELSE <<>>,
                   (IF accuracy
                    THEN Rate("lowConfidenceFacts", Count(lowConfidenceFacts))
                    ELSE <<>>)
                   @@ (IF userSatisfaction
                       THEN Rate("positiveFeedback", Count(positiveFeedback))
                            @@ Rate("recentFeedback", Len(recentFeedback))
                       ELSE <<>>)
                   @@ (IF efficiency
                       THEN Rate("duplicatePatterns", Count(duplicatePatterns))
                       ELSE <<>>),
                   {}))

----------------------------------------------------------------------------
\* system_info tool handler.  process stands for the Node.js process object:
\* its env and what the runtime reports about the host.

Process(env) ==
  [ platform |-> "linux", arch |-> "x64", version |-> "v20.0.0", uptime |-> 1,
    memoryUsage |-> 1, versions |-> "versions", timeZone |-> "Europe/Berlin",
    env |-> env ]

\* A full report that carries process.env along
handleSystemInfo_DumpsEnvironment(args, process) ==
  LET detail == IF truthy(Get(args, "detail")) THEN args.detail ELSE JsStr("basic")
  IN [ detail |-> detail,
       info |-> [ platform |-> process.platform, arch |-> process.arch,
                  nodeVersion |-> process.version, uptime |-> process.uptime,
                  memory |-> process.memoryUsage, env |-> process.env ] ]

handleSystemInfo(args, process) ==
  LET detail == IF truthy(Get(args, "detail")) THEN args.detail ELSE JsStr("basic")
      info == [ platform |-> process.platform, arch |-> process.arch,
                nodeVersion |-> process.version, uptime |-> process.uptime,
                memory |-> process.memoryUsage ]
      safeEnv ==
        [ NODE_ENV |-> IF truthy(process.env.NODE_ENV) THEN process.env.NODE_ENV
                       ELSE JsStr("unknown"),
          TZ |-> IF truthy(process.env.TZ) THEN process.env.TZ
                 ELSE JsStr(process.timeZone) ]
  IN [ detail |-> detail,
       info |-> IF detail = JsStr("full")
                THEN [ platform |-> info.platform, arch |-> info.arch,
                       nodeVersion |-> info.nodeVersion, uptime |-> info.uptime,
                       memory |-> info.memory, safeEnv |-> safeEnv,
                       versions |-> process.versions ]
                ELSE info ]

----------------------------------------------------------------------------
\* Validation layer (utils/validation)

validateTask(input) ==
  IF ~truthy(input) \/ typeOf(input) # "object" THEN FALSE
  ELSE IF ~truthy(input.name) \/ typeOf(input.name) # "string" THEN FALSE
  ELSE IF /\ input.efficiency.type # "undefined"
          /\ \/ typeOf(input.efficiency) # "number"
             \/ input.efficiency.num < 0 \/ input.efficiency.num > One
       THEN FALSE
  ELSE IF /\ input.toolsUsed.type # "undefined"
          /\ \/ ~isArray(input.toolsUsed)
             \/ \E i \in 1..Len(input.toolsUsed.items) :
                  typeOf(input.toolsUsed.items[i]) # "string"
       THEN FALSE
  ELSE TRUE

GoalPriorities == {"low", "medium", "high"}

validateGoal(input) ==
  IF ~truthy(input) \/ typeOf(input) # "object" THEN FALSE
  ELSE IF ~truthy(input.description) \/ typeOf(input.description) # "string"
       THEN FALSE
  ELSE IF /\ input.priority.type # "undefined"
          /\ ~(input.priority.type = "string" /\ input.priority.str \in GoalPriorities)
       THEN FALSE
  ELSE TRUE

----------------------------------------------------------------------------
\* The handler as the scheduler sees it.  tools.autoOptimize.handler is
\* declared (args) => ToolResult | Promise<ToolResult>, and
\* performAutoOptimization defends against a handler that throws (or
\* rejects), returns a non-object, or returns an object without
\* content[0].text.  fault selects such an outcome, applied tells whether the
\* handler's state effects took place before the fault.  returned tells what
\* came back: a well-formed result ("executed" or "skipped") or the fault.

Faults == {"none", "throw", "nonobject", "badshape"}

autoOptimizeHandler(s, priority, force, t, fault, applied) ==
  LET r == handleAutoOptimize(s, priority, force, t)
  IN IF fault = "none"
     THEN [ state |-> r.state,
            returned |-> IF r.skipped THEN "skipped" ELSE "executed",
            skipped |-> r.skipped,
            nextRun |-> r.nextRun ]
     ELSE [ state |-> IF applied THEN r.state ELSE s,
            returned |-> fault,
            skipped |-> FALSE,
            nextRun |-> 0 ]

----------------------------------------------------------------------------
\* Auto-optimization scheduler

\* An attempt whose handler reported "skipped" taken for a failure
attemptFailed_SkipCounts(r) ==
  r.returned \in {"throw", "nonobject"} \/ r.skipped

\* The try block is left for the catch block: the handler threw, or
\* (!result || typeof result !== 'object')
attemptFailed(r) ==
  r.returned \in {"throw", "nonobject"}

\* The breaker tripping when the count reaches the threshold
circuitBreaker_AtThreshold(s) ==
  IF s.performanceMetrics.errorCount >= FailureThreshold
  THEN setAutoOptimizationEnabled(s, FALSE)
  ELSE s

\* if ((metrics.errorCount || 0) > 5) setAutoOptimizationEnabled(false)
circuitBreaker(s) ==
  IF s.performanceMetrics.errorCount > FailureThreshold
  THEN setAutoOptimizationEnabled(s, FALSE)
  ELSE s

performAutoOptimization(s, t, fault, applied) ==
  IF ~s.autoOptimization.enabled
  THEN [ state |-> s, outcome |-> "disabled", returned |-> "",
         invoked |-> FALSE, thrown |-> FALSE ]
  ELSE
    LET r == autoOptimizeHandler(s, "balanced", FALSE, t, fault, applied)
    IN IF attemptFailed(r)
       THEN \* catch block
         LET message == IF r.returned = "throw" THEN "handler threw"
                        ELSE "invalid result type"
             s1 == recordError(r.state,
                     [tool |-> "auto_optimize", message |-> message, timestamp |-> t])
         IN [ state |-> circuitBreaker(s1), outcome |-> "failed",
              returned |-> r.returned, invoked |-> TRUE, thrown |-> FALSE ]
       ELSE \* a result without content[0].text is only logged
         [ state |-> recordOptimization(r.state, t),
           outcome |-> IF r.returned = "badshape" THEN "unexpected"
                       ELSE IF r.skipped THEN "skipped" ELSE "success",
           returned |-> r.returned,
           invoked |-> TRUE,
           thrown |-> FALSE ]

\* A timer callback without any guard around the handler call
schedulerCallback_Unguarded(s, t, fault, applied) ==
  IF ~s.autoOptimization.enabled
  THEN [ state |-> s, outcome |-> "disabled", returned |-> "",
         invoked |-> FALSE, thrown |-> FALSE ]
  ELSE
    LET r == autoOptimizeHandler(s, "balanced", FALSE, t, fault, applied)
    IN [ state |-> r.state,
         returned |-> r.returned,
         outcome |-> IF r.returned \in {"throw", "nonobject"} THEN "failed"
                     ELSE IF r.returned = "badshape" THEN "unexpected"
                     ELSE IF r.skipped THEN "skipped" ELSE "success",
         invoked |-> TRUE,
         thrown |-> r.returned \in {"throw", "nonobject"} ]

\* The body of the setInterval / setTimeout callbacks:
\* try { await performAutoOptimization() } catch { log }
schedulerCallback(s, t, fault, applied) ==
  LET r == performAutoOptimization(s, t, fault, applied)
  IN [r EXCEPT !.thrown = FALSE]

SchedulerStep(kind, fault, applied) ==
  LET r == schedulerCallback(state, now, fault, applied)
  IN /\ state' = r.state
     /\ crashed' = r.thrown
     /\ lastEvent' = [ kind |-> kind, tool |-> "auto_optimize", force |-> FALSE,
                       outcome |-> r.outcome, returned |-> r.returned,
                       args |-> <<>> ]
     /\ hist' = [hist EXCEPT
                   !.schedAttempts = @ + 1,
                   !.schedInvoked = @ + (IF r.invoked THEN 1 ELSE 0),
                   !.schedFailed = @ + (IF r.outcome = "failed" THEN 1 ELSE 0),
                   !.lastExecuted = IF r.returned = "executed" THEN Some(now) ELSE @]

\* A handler fault is only possible when the handler is invoked
FaultChoice(fault, applied) ==
  /\ fault = "none" => applied
  /\ ~state.autoOptimization.enabled => fault = "none"
  /\ state.performanceMetrics.errorCount >= MaxErrors => fault \in {"none", "badshape"}

\* setTimeout(..., 5000)
StartupKickoff ==
  /\ ~crashed
  /\ timers.startup # Null
  /\ now >= timers.startup[1]
  /\ \E fault \in Faults, applied \in BOOLEAN :
       /\ FaultChoice(fault, applied)
       /\ SchedulerStep("startup", fault, applied)
  /\ Len(state'.knowledgeBase.facts) <= MaxFactsLen
  /\ timers' = [timers EXCEPT !.startup = Null]
  /\ now' = now

\* setInterval(..., autoOptConfig.interval)
IntervalTick ==
  /\ ~crashed
  /\ now >= timers.interval
  /\ \E fault \in Faults, applied \in BOOLEAN :
       /\ FaultChoice(fault, applied)
       /\ SchedulerStep("tick", fault, applied)
  /\ Len(state'.knowledgeBase.facts) <= MaxFactsLen
  /\ timers' = [timers EXCEPT !.interval = now + Interval]
  /\ now' = now

----------------------------------------------------------------------------
\* Tool-call dispatcher (CallToolRequestSchema handler)

ToolNames ==
  { "echo", "system_info", "learn_from_interaction", "get_learning_insights",
    "adapt_behavior", "optimize_performance", "auto_optimize",
    "track_productivity", "enhance_tool_usage" }

\* Runs the handler registered under toolName on the arguments it is given
toolHandler(s, toolName, args, t) ==
  CASE toolName = "auto_optimize" ->
         LET priority == Default(Get(args, "priority"), JsStr("balanced")).str
             force == truthy(Get(args, "force"))
             r == handleAutoOptimize(s, priority, force, t)
         IN [ state |-> r.state, thrown |-> FALSE, skipped |-> r.skipped,
              isError |-> FALSE, message |-> "", report |-> NoReport ]
    [] toolName = "learn_from_interaction" ->
         LET r == handleLearnFromInteraction(s, args, t)
         IN [ state |-> r.state, thrown |-> r.thrown, skipped |-> FALSE,
              isError |-> r.isError, message |-> r.message, report |-> NoReport ]
    [] toolName = "adapt_behavior" ->
         LET r == handleAdaptBehavior(s, args, t)
         IN [ state |-> r.state, thrown |-> r.thrown, skipped |-> FALSE,
              isError |-> r.isError, message |-> "", report |-> NoReport ]
    [] toolName = "track_productivity" ->
         LET r == handleTrackProductivity(s, args, t)
         IN [ state |-> r.state, thrown |-> r.thrown, skipped |-> FALSE,
              isError |-> r.isError, message |-> "", report |-> r.report ]
    [] toolName = "get_learning_insights" ->
         LET r == handleGetLearningInsights(s, args)
         IN [ state |-> r.state, thrown |-> r.thrown, skipped |-> FALSE,
              isError |-> r.isError, message |-> r.message, report |-> r.report ]
    [] toolName = "optimize_performance" ->
         LET r == handleOptimizePerformance(s, args)
         IN [ state |-> r.state, thrown |-> r.thrown, skipped |-> FALSE,
              isError |-> r.isError, message |-> r.message, report |-> r.report ]
    [] toolName = "enhance_tool_usage" ->
         LET r == handleEnhanceToolUsage(s, args)
         IN [ state |-> r.state, thrown |-> r.thrown, skipped |-> FALSE,
              isError |-> r.isError, message |-> r.message, report |-> r.report ]
    [] OTHER -> \* echo, system_info
         [ state |-> s, thrown |-> FALSE, skipped |-> FALSE, isError |-> FALSE,
           message |-> "", report |-> NoReport ]

\* The catch block of the dispatcher: recordError(...); throw error
dispatchFailure(s, toolName, message, t, handled) ==
  [ state |-> recordError(s, [tool |-> toolName, message |-> message,
                              timestamp |-> t]),
    outcome |-> "error", thrown |-> TRUE, message |-> message,
    handled |-> handled, report |-> NoReport ]

\* A dispatcher that hands the raw arguments to the handler
callTool_HandlesRawArguments(s, toolName, arguments, t, elapsed) ==
  IF toolName \notin ToolNames
  THEN dispatchFailure(s, toolName, "Tool not found", t, Null)
  ELSE
    LET rawArgs == IF truthy(arguments) THEN arguments ELSE JsObj(<<>>)
        sanitizedArgs == deepSanitize(rawArgs, 0)
    IN IF sanitizedArgs.thrown
       THEN dispatchFailure(s, toolName, "Invalid input format", t, Null)
       ELSE
         LET r == toolHandler(s, toolName, rawArgs, t)
         IN IF r.thrown
            THEN dispatchFailure(r.state, toolName, r.message, t, Some(rawArgs))
            ELSE [ state |-> updateAverageResponseTime(
                               trackToolUsage(r.state, toolName, TRUE), elapsed),
                   outcome |-> IF r.skipped THEN "skipped"
                               ELSE IF r.isError THEN "error_result" ELSE "success",
                   thrown |-> FALSE, message |-> "",
                   handled |-> Some(rawArgs), report |-> r.report ]

\* handled holds the arguments the handler was invoked with, if it was
callTool(s, toolName, arguments, t, elapsed) ==
  IF toolName \notin ToolNames
  THEN dispatchFailure(s, toolName, "Tool not found", t, Null)
  ELSE
    LET rawArgs == IF truthy(arguments) THEN arguments ELSE JsObj(<<>>)
        sanitizedArgs == deepSanitize(rawArgs, 0)
    IN IF sanitizedArgs.thrown
       THEN dispatchFailure(s, toolName, "Invalid input format", t, Null)
       ELSE
         LET r == toolHandler(s, toolName, sanitizedArgs.value, t)
         IN IF r.thrown
            THEN dispatchFailure(r.state, toolName, r.message, t,
                                 Some(sanitizedArgs.value))
            ELSE [ state |-> updateAverageResponseTime(
                               trackToolUsage(r.state, toolName, TRUE), elapsed),
                   outcome |-> IF r.skipped THEN "skipped"
                               ELSE IF r.isError THEN "error_result" ELSE "success",
                   thrown |-> FALSE, message |-> "",
                   handled |-> Some(sanitizedArgs.value), report |-> r.report ]

\* Date.now() - startTime as measured by the dispatcher
ElapsedMs == {1}

DefaultArgs == JsObj([priority |-> JsStr("balanced"), force |-> JsBool(FALSE)])

CallTool ==
  /\ ~crashed
  /\ \E toolName \in {"auto_optimize", "echo", "no_such_tool"},
        priority \in Priorities, force \in BOOLEAN, elapsed \in ElapsedMs :
       LET args == JsObj([priority |-> JsStr(priority), force |-> JsBool(force)])
           r == callTool(state, toolName, args, now, elapsed)
       IN /\ toolName # "auto_optimize" => args = DefaultArgs
          /\ r.thrown => state.performanceMetrics.errorCount < MaxErrors
          /\ ~r.thrown =>
               SumValues(state.performanceMetrics.toolUsageCount) < MaxCalls
          /\ Len(r.state.knowledgeBase.facts) <= MaxFactsLen
          /\ state' = r.state
          /\ lastEvent' = [ kind |-> "external", tool |-> toolName, force |-> force,
                            outcome |-> r.outcome, returned |-> "",
                            args |-> <<>> ]
          /\ hist' = [hist EXCEPT
                        !.lastExecuted =
                           IF toolName = "auto_optimize" /\ r.outcome = "success"
                           THEN Some(now) ELSE @]
  /\ UNCHANGED <<now, timers, crashed>>

----------------------------------------------------------------------------
\* Passage of time.  Time is observed at the instants k * Interval and
\* k * Interval + StartupDelay (the latter only in the first period for the
\* scheduler-only specification).  Advance is the clock seen by a handler
\* on its own; with the scheduler running, time passes by Elapse and
\* SchedAdvance.

TimeSteps == {StartupDelay, Interval - StartupDelay, Interval}

AdvanceEvent ==
  [ kind |-> "advance", tool |-> "", force |-> FALSE, outcome |-> "", returned |-> "",
    args |-> <<>> ]

Advance ==
  /\ ~crashed
  /\ \E d \in TimeSteps :
       /\ now + d <= MaxTime
       /\ (now + d) % Interval \in {0, StartupDelay}
       /\ now' = now + d
  /\ lastEvent' = AdvanceEvent
  /\ UNCHANGED <<state, timers, crashed, hist>>

\* No armed timer is due before time t.  The handlers are synchronous and
\* never block, so the event loop runs a callback at the instant it is due
TimersServed(t) ==
  /\ IF timers.startup = Null THEN TRUE ELSE t <= timers.startup[1]
  /\ t <= timers.interval

\* Time passing in the running server
Elapse ==
  /\ Advance
  /\ TimersServed(now')

SchedAdvance ==
  /\ ~crashed
  /\ \E d \in TimeSteps :
       /\ now + d <= SchedMaxTime
       /\ (now + d) % Interval = 0 \/ now + d = StartupDelay
       /\ TimersServed(now + d)
       /\ now' = now + d
  /\ lastEvent' = AdvanceEvent
  /\ UNCHANGED <<state, timers, crashed, hist>>

----------------------------------------------------------------------------
\* The server after construction: the state store is created, then
\* startAutoOptimization arms both timers.

\* A server whose lastRun starts a full interval before its construction
Init_NeverRunBefore ==
  /\ now = 0
  /\ state = [createInitialState(0) EXCEPT !.autoOptimization.lastRun = 0 - Interval]
  /\ timers = [startup |-> Some(StartupDelay), interval |-> Interval]
  /\ crashed = FALSE
  /\ lastEvent = [ kind |-> "init", tool |-> "", force |-> FALSE, outcome |-> "",
                   returned |-> "", args |-> <<>> ]
  /\ hist = [schedAttempts |-> 0, schedInvoked |-> 0, schedFailed |-> 0, adds |-> 0,
              nextRun |-> 0, calls |-> 0, lastExecuted |-> Null]

Init ==
  /\ now = 0
  /\ state = createInitialState(0)
  /\ timers = [startup |-> Some(StartupDelay), interval |-> Interval]
  /\ crashed = FALSE
  /\ lastEvent = [ kind |-> "init", tool |-> "", force |-> FALSE, outcome |-> "",
                   returned |-> "", args |-> <<>> ]
  /\ hist = [schedAttempts |-> 0, schedInvoked |-> 0, schedFailed |-> 0, adds |-> 0,
              nextRun |-> 0, calls |-> 0, lastExecuted |-> Null]

Next ==
  \/ StartupKickoff
  \/ IntervalTick
  \/ CallTool
  \/ Elapse

Spec == Init /\ [][Next]_vars

----------------------------------------------------------------------------
\* The state store driven directly through its public methods.  Interactions
\* are numbered in the order in which they are added to the history, the
\* entries of the other collections by the number of the call adding them.

StoreEvent(method, outcome) ==
  [ kind |-> "store", tool |-> method, force |-> FALSE, outcome |-> outcome,
    returned |-> "", args |-> <<>> ]

StoreStepWith(s, method, outcome, args) ==
  /\ ~crashed
  /\ hist.adds < MaxAdds
  /\ state' = s
  /\ hist' = [hist EXCEPT !.adds = @ + 1]
  /\ lastEvent' = [StoreEvent(method, outcome) EXCEPT !.args = args]
  /\ UNCHANGED <<now, timers, crashed>>

StoreStep(s, method, outcome) == StoreStepWith(s, method, outcome, <<>>)

AddInteraction ==
  \E success \in {"true", "false", "undefined"} :
    StoreStep(addInteraction(state,
                [id |-> state.performanceMetrics.totalInteractions + 1,
                 success |-> success]),
              "addInteraction", "ok")

AddFeedback ==
  StoreStep(addFeedback(state, [id |-> hist.adds + 1]), "addFeedback", "ok")

AddFact ==
  \E confidence \in {0 - 100, 700, 1500},
     source \in {"user_feedback", "not_a_source"} :
    LET fact == [id |-> <<"fact", hist.adds + 1>>,
                 confidence |-> confidence, source |-> source]
        r == addFact(state, fact)
    IN StoreStepWith(r.state, "addFact", IF r.thrown THEN "thrown" ELSE "ok",
                     [confidence |-> confidence, source |-> source])

AddPattern ==
  \E effectiveness \in {0 - 100, 200, 1500} :
    StoreStepWith(addPattern(state, [pattern |-> "avoid_response_type",
                                     response_type |-> hist.adds + 1,
                                     effectiveness |-> effectiveness]),
                  "addPattern", "ok", [effectiveness |-> effectiveness])

AddGoal ==
  StoreStep(addGoal(state, [id |-> hist.adds + 1, priority |-> "medium"]),
            "addGoal", "ok")

StoreNext ==
  \/ AddInteraction
  \/ AddFeedback
  \/ AddFact
  \/ AddPattern
  \/ AddGoal

StoreSpec == Init /\ [][StoreNext]_vars

----------------------------------------------------------------------------
\* The auto_optimize handler called directly on the shared state (as
\* createAutoOptimizeHandler(state) returns it), at any observed instant.
\* returned carries the priority, hist.nextRun the reported next run.

HandleAutoOptimize ==
  /\ ~crashed
  /\ \E priority \in Priorities, force \in BOOLEAN :
       LET r == handleAutoOptimize(state, priority, force, now)
       IN /\ Len(r.state.knowledgeBase.facts) <= MaxOptFacts
          /\ state' = r.state
          /\ lastEvent' = [ kind |-> "handler", tool |-> "auto_optimize",
                            force |-> force,
                            outcome |-> IF r.skipped THEN "skipped"
                                        ELSE IF Len(r.optimizations) > 0 THEN "optimized"
                                        ELSE "nothing_to_do",
                            returned |-> priority, args |-> <<>> ]
          /\ hist' = [hist EXCEPT
                        !.nextRun = r.nextRun,
                        !.lastExecuted = IF r.skipped THEN @ ELSE Some(now)]
  /\ UNCHANGED <<now, timers, crashed>>

HandlerNext ==
  \/ HandleAutoOptimize
  \/ Advance

HandlerSpec == Init /\ [][HandlerNext]_vars

----------------------------------------------------------------------------
\* The learn_from_interaction, adapt_behavior and track_productivity tools,
\* called either directly on the shared state (kind "tool", as the
\* create...Handler(state) factories return them) or through the dispatcher
\* (kind "external").

TextOk == <<"o", "k">>
TextGood == <<"G", "o", "o", "d">>
TextGreat == <<"G", "R", "E", "A", "T">>
TextBad == <<"b", "a", "d">>
TextImprove == <<"I", "m", "p", "r", "o", "v", "e">>
TextBoth == <<"g", "r", "e", "a", "t", " ", "B", "A", "D">>

\* Values that are not a non-empty string
BadStrings == {Undefined, JsStr(""), JsNum(5)}

Interaction(userInput, aiResponse, success, userFeedback, context) ==
  [ type |-> "object", userInput |-> userInput, aiResponse |-> aiResponse,
    success |-> success, userFeedback |-> userFeedback, context |-> context ]

Feedbacks ==
  { Undefined, JsText(<<>>), JsText(TextOk), JsText(TextGood), JsText(TextGreat),
    JsText(TextBad), JsText(TextImprove), JsText(TextBoth), JsNum(5) }

Interactions ==
  {Undefined}
  \cup { Interaction(u, JsStr("hello"), Undefined, JsText(TextBoth), JsStr("ctx")) :
           u \in BadStrings }
  \cup { Interaction(JsStr("hi"), a, Undefined, JsText(TextBoth), JsStr("ctx")) :
           a \in BadStrings }
  \cup { Interaction(JsStr("hi"), JsStr("hello"), su, JsText(TextBoth), JsStr("ctx")) :
           su \in {JsStr("yes"), JsNum(1)} }
  \cup { Interaction(JsStr("hi"), JsStr("hello"), Undefined, fb, Undefined) :
           fb \in Feedbacks }
  \cup { Interaction(JsStr("hi"), JsStr("hello"), su, fb, Undefined) :
           su \in {JsBool(TRUE), JsBool(FALSE)},
           fb \in {Undefined, JsText(TextGood)} }
  \cup { Interaction(JsStr("hi"), JsStr("hello"), Undefined, fb, JsStr("ctx")) :
           fb \in {Undefined, JsText(TextGood)} }

Adaptation(communicationStyle, responseDetailLevel, proactivityLevel, learningRate, customPreferences) ==
  [ type |-> "object", communicationStyle |-> communicationStyle,
    responseDetailLevel |-> responseDetailLevel,
    proactivityLevel |-> proactivityLevel, learningRate |-> learningRate,
    customPreferences |-> customPreferences ]

Adaptations ==
  {Undefined, JsArr(<<>>), JsStr("casual")}
  \cup { Adaptation(cs, rd, pl, Undefined, Undefined) :
           cs \in {Undefined, JsStr("casual")},
           rd \in {Undefined, JsStr("detailed")},
           pl \in {Undefined, JsStr("proactive")} }
  \cup { Adaptation(cs, Undefined, Undefined, JsStr("aggressive"), Undefined) :
           cs \in {Undefined, JsStr("formal")} }
  \cup { Adaptation(JsStr(""), Undefined, JsNull, Undefined, Undefined),
         Adaptation(Undefined, Undefined, Undefined, Undefined,
                    JsObj([theme |-> JsStr("dark")])),
         Adaptation(Undefined, Undefined, Undefined, Undefined,
                    JsObj([theme |-> JsStr("light"),
                           communicationStyle |-> JsStr("pirate")])) }
  \cup { Adaptation(JsStr("sarcastic"), Undefined, Undefined, Undefined, Undefined),
         Adaptation(JsStr("casual"), Undefined, Undefined, JsNum(5), Undefined) }

Task(name, efficiency, toolsUsed, success) ==
  [ type |-> "object", name |-> name, efficiency |-> efficiency,
    toolsUsed |-> toolsUsed, success |-> success ]

Tasks ==
  {Undefined}
  \cup { Task(n, JsNum(500), JsArr(<<JsStr("echo")>>), Undefined) : n \in BadStrings }
  \cup { Task(JsStr("t"), e, JsArr(<<JsStr("echo")>>), Undefined) :
           e \in {JsStr("high"), JsNum(0 - 100), JsNum(1500)} }
  \cup { Task(JsStr("t"), JsNum(500), tu, Undefined) :
           tu \in { JsStr("echo"), JsArr(<<JsStr("echo"), JsNum(1)>>), JsStr(""),
                    JsBool(FALSE) } }
  \cup { Task(JsStr("t"), e, tu, su) :
           e \in {Undefined, JsNum(0), JsNum(500)},
           tu \in {Undefined, JsArr(<<JsStr("echo"), JsStr("system_info")>>)},
           su \in {Undefined, JsBool(FALSE)} }
  \cup { Task(JsStr("t"), JsNum(1000), JsArr(<<>>), JsBool(TRUE)) }

Goal(description, priority) ==
  [ type |-> "object", description |-> description, priority |-> priority ]

Goals ==
  {Undefined}
  \cup { Goal(d, Undefined) : d \in BadStrings }
  \cup { Goal(JsStr("ship"), p) : p \in {Undefined, JsStr("low"), JsStr("urgent")} }

TrackArgs ==
  { JsObj([action |-> JsStr("add_task"), task |-> task, goal |-> Undefined]) :
      task \in Tasks }
  \cup { JsObj([action |-> JsStr("set_goal"), task |-> Undefined, goal |-> goal]) :
           goal \in Goals }
  \cup { JsObj([action |-> a, task |-> Undefined, goal |-> Undefined]) :
           a \in { Undefined, JsStr("complete_task"), JsStr("analyze_efficiency"),
                   JsStr("delete_all") } }

\* One call of a tool: direct is the result of the handler on the current
\* state.  A run uses one of the two routes throughout.
ToolStep(toolName, args, direct) ==
  /\ ~crashed
  /\ hist.calls < MaxToolCalls
  /\ \E via \in {"tool", "external"} :
       LET r == IF via = "tool"
                THEN [ state |-> direct.state,
                       outcome |-> IF direct.thrown THEN "error"
                                   ELSE IF direct.isError THEN "error_result"
                                   ELSE "success" ]
                ELSE callTool(state, toolName, args, now, 1)
       IN /\ lastEvent.kind \in {"init", via}
          /\ state' = r.state
          /\ lastEvent' = [ kind |-> via, tool |-> toolName, force |-> FALSE,
                            outcome |-> r.outcome, returned |-> "", args |-> args ]
  /\ hist' = [hist EXCEPT !.calls = @ + 1]
  /\ UNCHANGED <<now, timers, crashed>>

LearnFromInteraction ==
  \E interaction \in Interactions :
    LET args == JsObj([interaction |-> interaction])
    IN ToolStep("learn_from_interaction", args,
                handleLearnFromInteraction(state, args, now))

AdaptBehavior ==
  \E adaptation \in Adaptations :
    LET args == JsObj([adaptation |-> adaptation])
    IN ToolStep("adapt_behavior", args, handleAdaptBehavior(state, args, now))

TrackProductivity ==
  \E args \in TrackArgs :
    ToolStep("track_productivity", args, handleTrackProductivity(state, args, now))

ToolNext ==
  \/ LearnFromInteraction
  \/ AdaptBehavior
  \/ TrackProductivity

ToolSpec == Init /\ [][ToolNext]_vars

----------------------------------------------------------------------------
\* UniversalMCPServer, the JavaScript server: its adaptBehavior tool works on
\* this.knowledgeBase, whose preferences start with the keys of the
\* constructor.

UniversalKnowledgeBase ==
  [ facts |-> SeedFacts,
    patterns |-> SeedPatterns,
    preferences |->
      JsObj([ communication_style |-> JsStr("professional"),
              response_detail_level |-> JsStr("balanced"),
              learn_from_feedback |-> JsBool(TRUE),
              auto_optimize |-> JsBool(TRUE),
              productivity_focus |-> JsBool(TRUE),
              tool_usage_priority |-> JsBool(TRUE) ]) ]

\* if (adaptation.field) preferences.field = adaptation.field
assignIfTruthy(preferences, field, value) ==
  IF truthy(value) THEN Put(preferences, field, value) ELSE preferences

\* The handler of adaptBehavior: the four fields, then
\* Object.assign(this.knowledgeBase.preferences, adaptation.customPreferences)
adaptBehavior(knowledgeBase, args, t) ==
  LET adaptation == args.adaptation
  IN IF adaptation.type \in {"undefined", "null"}
     THEN [ knowledgeBase |-> knowledgeBase, thrown |-> TRUE ]
     ELSE LET p1 == assignIfTruthy(knowledgeBase.preferences, "communicationStyle",
                                   Get(adaptation, "communicationStyle"))
              p2 == assignIfTruthy(p1, "responseDetailLevel",
                                   Get(adaptation, "responseDetailLevel"))
              p3 == assignIfTruthy(p2, "proactivityLevel",
                                   Get(adaptation, "proactivityLevel"))
              p4 == assignIfTruthy(p3, "learningRate", Get(adaptation, "learningRate"))
              customPreferences == Get(adaptation, "customPreferences")
          IN [ knowledgeBase |->
                 [knowledgeBase EXCEPT
                    !.preferences =
                       IF truthy(customPreferences)
                       THEN ObjectAssign(p4, Props(customPreferences))
                       ELSE p4,
                    !.facts = Append(@, AdaptationFact(t))],
               thrown |-> FALSE ]

UniversalAdaptations ==
  {Undefined}
  \cup { Adaptation(cs, Undefined, Undefined, Undefined, cp) :
           cs \in {Undefined, JsStr("casual")},
           cp \in { Undefined,
                    JsObj([theme |-> JsStr("dark")]),
                    JsObj([theme |-> JsStr("light")]),
                    JsObj([communicationStyle |-> JsStr("pirate")]),
                    JsObj([theme |-> JsStr("light"),
                           learningRate |-> JsNum(5)]) } }

UniversalInit ==
  /\ now = 0
  /\ state = [knowledgeBase |-> UniversalKnowledgeBase]
  /\ timers = [startup |-> Some(StartupDelay), interval |-> Interval]
  /\ crashed = FALSE
  /\ lastEvent = [ kind |-> "init", tool |-> "", force |-> FALSE, outcome |-> "",
                   returned |-> "", args |-> <<>> ]
  /\ hist = [schedAttempts |-> 0, schedInvoked |-> 0, schedFailed |-> 0, adds |-> 0,
              nextRun |-> 0, calls |-> 0, lastExecuted |-> Null]

UniversalAdaptBehavior ==
  /\ hist.calls < MaxAdaptations
  /\ \E adaptation \in UniversalAdaptations :
       LET args == JsObj([adaptation |-> adaptation])
           r == adaptBehavior(state.knowledgeBase, args, now)
       IN /\ state' = [state EXCEPT !.knowledgeBase = r.knowledgeBase]
          /\ lastEvent' = [ kind |-> "tool", tool |-> "adapt_behavior",
                            force |-> FALSE,
                            outcome |-> IF r.thrown THEN "error" ELSE "success",
                            returned |-> "", args |-> args ]
  /\ hist' = [hist EXCEPT !.calls = @ + 1]
  /\ UNCHANGED <<now, timers, crashed>>

UniversalNext == UniversalAdaptBehavior

UniversalSpec == UniversalInit /\ [][UniversalNext]_vars

----------------------------------------------------------------------------
\* The report tools next to the tools that fill the state they report on,
\* called directly (kind "tool") or through the dispatcher (kind "external");
\* calls of an unregistered tool, calls without arguments and calls with
\* nested arguments go through the dispatcher.

\* leaf wrapped into one container per key of path, outermost first: "[]"
\* wraps into an array, any other key into an object under that key
RECURSIVE Nest(_, _)
Nest(path, leaf) ==
  IF path = <<>> THEN leaf
  ELSE IF Head(path) = "[]"
  THEN JsArr(<<JsStr("x"), Nest(Tail(path), leaf)>>)
  ELSE JsObj(Put([keep |-> JsNum(1)], Head(path), Nest(Tail(path), leaf)))

Chain(key, n) == [i \in 1..n |-> key]

ServeStep(toolName, args, routes) ==
  /\ ~crashed
  /\ hist.calls < MaxToolCalls
  /\ \E via \in routes :
       LET h == toolHandler(state, toolName, args, now)
           r == IF via = "tool"
                THEN [ state |-> h.state,
                       outcome |-> IF h.thrown THEN "error"
                                   ELSE IF h.isError THEN "error_result"
                                   ELSE "success",
                       thrown |-> h.thrown, message |-> h.message,
                       handled |-> Some(args), report |-> h.report ]
                ELSE callTool(state, toolName, args, now, 1)
       IN /\ lastEvent.kind \in {"init", via}
          /\ state' = r.state
          /\ lastEvent' = [ kind |-> via, tool |-> toolName, force |-> FALSE,
                            outcome |-> r.outcome, returned |-> "", args |-> args,
                            thrown |-> r.thrown, message |-> r.message,
                            handled |-> r.handled, report |-> r.report ]
  /\ hist' = [hist EXCEPT !.calls = @ + 1]
  /\ UNCHANGED <<now, timers, crashed>>

Routes == {"tool", "external"}

Learn ==
  \E interaction \in
       { Undefined,
         Interaction(JsStr("hi"), JsStr("hello"), Undefined, JsText(TextGood), Undefined),
         Interaction(JsStr("hi"), JsStr("hello"), Undefined, JsNum(5), Undefined),
         Interaction(JsStr("hi"), JsStr("hello"), JsBool(FALSE), Undefined, Undefined) } :
    ServeStep("learn_from_interaction", JsObj([interaction |-> interaction]), Routes)

AddTask ==
  \E success \in {Undefined, JsBool(FALSE)} :
    ServeStep("track_productivity",
              JsObj([action |-> JsStr("add_task"),
                     task |-> Task(JsStr("t"), Undefined, JsArr(<<JsStr("echo")>>),
                                   success),
                     goal |-> Undefined]),
              Routes)

GetMetrics ==
  \E action \in {Undefined, JsStr("analyze_efficiency")} :
    ServeStep("track_productivity",
              JsObj([action |-> action, task |-> Undefined, goal |-> Undefined]),
              Routes)

GetLearningInsights ==
  \E view \in { <<Undefined, Undefined>>, <<JsStr("full"), JsStr("performance")>>,
                 <<JsStr("detailed"), JsStr("patterns")>> } :
    ServeStep("get_learning_insights",
              JsObj([detailLevel |-> view[1], focusArea |-> view[2]]), Routes)

OptimizePerformance ==
  \E optimizationType \in {Undefined, JsStr("user_satisfaction"), JsStr("accuracy")} :
    ServeStep("optimize_performance",
              JsObj([optimizationType |-> optimizationType]), Routes)

EnhanceToolUsage ==
  \E analysisType \in {Undefined, JsStr("usage_patterns"), JsStr("recommendations")} :
    ServeStep("enhance_tool_usage", JsObj([analysisType |-> analysisType]), Routes)

CallUnknownTool ==
  ServeStep("no_such_tool", JsObj(<<>>), {"external"})

CallWithoutArguments ==
  ServeStep("enhance_tool_usage", Undefined, {"external"})

\* adapt_behavior with custom preferences that carry a dangerous key, that
\* reach the deepest level allowed, and that go one level beyond it
NestedPreferences ==
  { JsObj(Put([theme |-> JsStr("dark")], "__proto__", JsObj([admin |-> JsBool(TRUE)]))),
    Nest(Chain("a", MAX_DEPTH - 2), JsStr("deep")),
    Nest(Chain("a", MAX_DEPTH - 1), JsStr("deep")) }

CallWithNestedArguments ==
  \E customPreferences \in NestedPreferences :
    ServeStep("adapt_behavior",
              JsObj([adaptation |->
                       Adaptation(Undefined, Undefined, Undefined, Undefined,
                                  customPreferences)]),
              {"external"})

ServeNext ==
  \/ Learn
  \/ AddTask
  \/ GetMetrics
  \/ GetLearningInsights
  \/ OptimizePerformance
  \/ EnhanceToolUsage
  \/ CallUnknownTool
  \/ CallWithoutArguments
  \/ CallWithNestedArguments

ServeSpec == Init /\ [][ServeNext]_vars

----------------------------------------------------------------------------
\* deepSanitize on its own: the input is drawn at the start, Sanitize applies
\* the function to it and SanitizeAgain applies it to what came back.

Leaves == {JsNum(7), JsNull, JsObj(<<>>), JsArr(<<>>)}

NestedInputs ==
  { Nest(Chain(key, n), leaf) :
      key \in {"a", "[]"}, n \in 0..MaxNesting, leaf \in Leaves }
  \cup { Nest(Chain("a", p) \o <<dangerous>> \o Chain(key, m), JsStr("evil")) :
           p \in {0, 1, 5, 9}, dangerous \in DANGEROUS_PROPS,
           key \in {"a", "[]"}, m \in {0, 1, MaxNesting} }
  \cup { Nest(<<"[]", "a", "[]", "prototype", "a">>, JsBool(TRUE)) }

PureEvent(kind, tool, outcome, returned, args) ==
  [ kind |-> kind, tool |-> tool, force |-> FALSE, outcome |-> outcome,
    returned |-> returned, args |-> args ]

\* The server state plays no part in a pure function
PureInit(tool, inputs) ==
  /\ now = 0
  /\ state = createInitialState(0)
  /\ timers = [startup |-> Some(StartupDelay), interval |-> Interval]
  /\ crashed = FALSE
  /\ hist = [schedAttempts |-> 0, schedInvoked |-> 0, schedFailed |-> 0, adds |-> 0,
              nextRun |-> 0, calls |-> 0, lastExecuted |-> Null]
  /\ \E input \in inputs : lastEvent = PureEvent("input", tool, "", Null, input)

SanitizeInit == PureInit("deepSanitize", NestedInputs)

Sanitize ==
  /\ lastEvent.kind = "input"
  /\ LET r == deepSanitize(lastEvent.args, 0)
     IN lastEvent' = PureEvent("sanitized", "deepSanitize",
                               IF r.thrown THEN "error" ELSE "ok",
                               IF r.thrown THEN Null ELSE Some(r.value),
                               lastEvent.args)
  /\ UNCHANGED <<state, now, timers, crashed, hist>>

\* args keeps the first input, once what the first pass returned
SanitizeAgain ==
  /\ lastEvent.kind = "sanitized"
  /\ lastEvent.outcome = "ok"
  /\ LET r == deepSanitize(lastEvent.returned[1], 0)
     IN lastEvent' = [ PureEvent("resanitized", "deepSanitize",
                                 IF r.thrown THEN "error" ELSE "ok",
                                 IF r.thrown THEN Null ELSE Some(r.value),
                                 lastEvent.args)
                       EXCEPT !.force = FALSE ] @@ [once |-> lastEvent.returned]
  /\ UNCHANGED <<state, now, timers, crashed, hist>>

SanitizeNext ==
  \/ Sanitize
  \/ SanitizeAgain

SanitizeSpec == SanitizeInit /\ [][SanitizeNext]_vars

----------------------------------------------------------------------------
\* system_info on its own: the environment of the process and the arguments
\* of the call are drawn at the start.

AllowList == {"NODE_ENV", "TZ"}

Environments ==
  [ NODE_ENV : {Undefined, JsStr(""), JsStr("production")},
    TZ : {Undefined, JsStr("UTC")},
    SECRET_KEY : {Undefined, JsStr("s3cr3t"), JsStr("hunter2")},
    PATH : {JsStr("/usr/bin"), JsStr("/opt/bin")} ]

Details == {Undefined, JsStr("basic"), JsStr("full"), JsStr("verbose")}

SystemInfoInputs ==
  { [env |-> env, arguments |-> JsObj([detail |-> detail])] :
      env \in Environments, detail \in Details }

SystemInfoInit == PureInit("system_info", SystemInfoInputs)

SystemInfo ==
  /\ lastEvent.kind = "input"
  /\ lastEvent' = PureEvent("system_info", "system_info", "ok",
                            handleSystemInfo(lastEvent.args.arguments,
                                             Process(lastEvent.args.env)),
                            lastEvent.args)
  /\ UNCHANGED <<state, now, timers, crashed, hist>>

SystemInfoNext ==
  \/ SystemInfo

SystemInfoSpec == SystemInfoInit /\ [][SystemInfoNext]_vars

\* The scheduler on its own, over enough periods for the breaker to trip
----------------------------------------------------------------------------
\* The tools that change the two scores (auto_optimize and the add_task and
\* complete_task actions of track_productivity), called directly on the
\* shared state, next to the scheduler.

ScoreTasks ==
  { Task(JsStr("t"), e, Undefined, Undefined) :
      e \in {Undefined, JsNum(One), JsNum(1500)} }

ScoreArgs ==
  { JsObj([action |-> JsStr("add_task"), task |-> task, goal |-> Undefined]) :
      task \in ScoreTasks }
  \cup { JsObj([action |-> JsStr("complete_task"), task |-> Undefined,
                goal |-> Undefined]) }

TrackTask ==
  /\ ~crashed
  /\ state.productivityMetrics.tasksCompleted < MaxTasks
  /\ \E args \in ScoreArgs :
       LET r == handleTrackProductivity(state, args, now)
       IN /\ state' = r.state
          /\ lastEvent' = [ kind |-> "tool", tool |-> "track_productivity",
                            force |-> FALSE,
                            outcome |-> IF r.isError THEN "error_result"
                                        ELSE "success",
                            returned |-> "", args |-> args ]
  /\ UNCHANGED <<now, timers, crashed, hist>>

ScoreNext ==
  \/ HandleAutoOptimize
  \/ TrackTask
  \/ StartupKickoff
  \/ IntervalTick
  \/ Elapse

ScoreSpec == Init /\ [][ScoreNext]_vars

----------------------------------------------------------------------------
\* auto_optimize called directly on the shared state after interactions have
\* been learnt (directly) and a tool has been dispatched, so that the success
\* rate and the average tool usage take values on both sides of their
\* targets.

LearnOutcome ==
  /\ ~crashed
  /\ state.performanceMetrics.totalInteractions < MaxInteractions
  /\ \E success \in {Undefined, JsBool(FALSE)} :
       LET args == JsObj([interaction |->
                            Interaction(JsStr("hi"), JsStr("hello"), success,
                                        Undefined, Undefined)])
           r == handleLearnFromInteraction(state, args, now)
       IN /\ state' = r.state
          /\ lastEvent' = [ kind |-> "tool", tool |-> "learn_from_interaction",
                            force |-> FALSE,
                            outcome |-> IF r.thrown THEN "error" ELSE "success",
                            returned |-> "", args |-> args ]
  /\ UNCHANGED <<now, timers, crashed, hist>>

CallEcho ==
  /\ ~crashed
  /\ SumValues(state.performanceMetrics.toolUsageCount) < MaxCalls
  /\ \E elapsed \in ElapsedMs :
       LET r == callTool(state, "echo", JsObj(<<>>), now, elapsed)
       IN /\ state' = r.state
          /\ lastEvent' = [ kind |-> "external", tool |-> "echo", force |-> FALSE,
                            outcome |-> r.outcome, returned |-> "",
                            args |-> JsObj(<<>>) ]
  /\ UNCHANGED <<now, timers, crashed, hist>>

FlagNext ==
  \/ HandleAutoOptimize
  \/ LearnOutcome
  \/ CallEcho
  \/ Advance

FlagSpec == Init /\ [][FlagNext]_vars

SchedNext ==
  \/ StartupKickoff
  \/ IntervalTick
  \/ SchedAdvance

SchedSpec == Init /\ [][SchedNext]_vars

----------------------------------------------------------------------------
\* Properties

SchedulerKinds == {"startup", "tick"}

\* C1: an exception of the auto_optimize handler never escapes a scheduler
\* callback, and after a failed attempt the interval timer still fires.
C1_SchedulerFailureContained ==
  /\ ~crashed
  /\ (now >= timers.interval) => ENABLED IntervalTick

\* A tick ran the optimization after an earlier attempt had failed, and an
\* external call was served after that
C1_Witness ==
  /\ lastEvent.kind = "external"
  /\ lastEvent.outcome = "success"
  /\ hist.schedFailed > 0
  /\ state.performanceMetrics.lastError # Null
  /\ state.performanceMetrics.lastOptimization # Null
  /\ state.performanceMetrics.lastError[1].tool = "auto_optimize"
  /\ state.performanceMetrics.lastOptimization[1]
       > state.performanceMetrics.lastError[1].timestamp

C3_OneWayBreaker ==
  [][~state.autoOptimization.enabled => ~state'.autoOptimization.enabled]_vars

\* A forced external optimization ran while the breaker was open
C3_Witness ==
  /\ ~state.autoOptimization.enabled
  /\ lastEvent.kind = "external"
  /\ lastEvent.tool = "auto_optimize"
  /\ lastEvent.force
  /\ lastEvent.outcome = "success"

\* C4: after the fifth failed scheduler attempt autoOptimization.enabled is
\* false.
C4_DisabledAfterFive ==
  hist.schedFailed >= 5 => ~state.autoOptimization.enabled

\* C5: a scheduler attempt whose handler reported "skipped" changes neither
\* the failure counter, nor the last error, nor autoOptimization.enabled.
C5_SkipIsNotFailure ==
  [][ (lastEvent'.kind \in SchedulerKinds /\ lastEvent'.returned = "skipped")
      => /\ state'.performanceMetrics.errorCount
              = state.performanceMetrics.errorCount
         /\ state'.performanceMetrics.lastError
              = state.performanceMetrics.lastError
         /\ state'.autoOptimization.enabled = state.autoOptimization.enabled
         /\ hist'.schedFailed = hist.schedFailed ]_vars

\* A tick was skipped while an error was on record
C5_Witness ==
  /\ lastEvent.kind = "tick"
  /\ lastEvent.returned = "skipped"
  /\ state.performanceMetrics.errorCount > 0

\* C6: a scheduler attempt whose handler throws, returns a non-object, or
\* returns an object without content[0].text increments the failure counter,
\* records the error with tool name and timestamp, and is not recorded as a
\* successful optimization.
C6_InvalidResultFails ==
  [][ (lastEvent'.kind \in SchedulerKinds
         /\ lastEvent'.returned \in {"throw", "nonobject", "badshape"})
      => /\ state'.performanceMetrics.errorCount
              = state.performanceMetrics.errorCount + 1
         /\ state'.performanceMetrics.lastError # Null
         /\ state'.performanceMetrics.lastError[1].tool = "auto_optimize"
         /\ state'.performanceMetrics.lastError[1].timestamp = now
         /\ state'.performanceMetrics.lastOptimization
              = state.performanceMetrics.lastOptimization ]_vars

\* C7: a handler call executes iff force is set or a full interval has
\* elapsed since lastRun; an executed call sets lastRun to the current time
\* and a skipped one leaves it.
C7_IntervalGate ==
  [][ lastEvent'.kind = "handler"
      => LET executed == lastEvent'.outcome # "skipped"
             elapsed == now - state.autoOptimization.lastRun
         IN /\ executed <=> (lastEvent'.force \/ elapsed >= 300000)
            /\ executed => state'.autoOptimization.lastRun = now
            /\ ~executed => state'.autoOptimization.lastRun
                              = state.autoOptimization.lastRun ]_vars

\* An unforced call right after an executed run was skipped
C7_Witness ==
  /\ lastEvent.kind = "handler"
  /\ lastEvent.outcome = "skipped"
  /\ ~lastEvent.force
  /\ now > 0
  /\ state.autoOptimization.lastRun = now

\* C8: a skipped handler call leaves the whole state as it was and reports
\* lastRun + interval as the next eligible time.
C8_SkipMutatesNothing ==
  [][ (lastEvent'.kind = "handler" /\ lastEvent'.outcome = "skipped")
      => /\ state' = state
         /\ hist'.nextRun = state.autoOptimization.lastRun + 300000 ]_vars

\* A call was skipped after earlier runs had changed scores and facts
C8_Witness ==
  /\ lastEvent.kind = "handler"
  /\ lastEvent.outcome = "skipped"
  /\ Len(state.knowledgeBase.facts) > Len(SeedFacts)
  /\ state.autoOptimization.lastRun > 0

\* C9: an executed run that flagged an improvement raises productivityScore
\* by 0.05 and efficiencyScore by 0.03, both capped at 1.0, and appends one
\* Fact of source automatic_optimization; an executed run that flagged
\* nothing changes lastRun only.
C9_FixedStepNudge ==
  [][ (lastEvent'.kind = "handler" /\ lastEvent'.outcome # "skipped")
      => IF lastEvent'.outcome = "optimized"
         THEN /\ state'.performanceMetrics.productivityScore
                   = Min(1000, state.performanceMetrics.productivityScore + 50)
              /\ state'.productivityMetrics.efficiencyScore
                   = Min(1000, state.productivityMetrics.efficiencyScore + 30)
              /\ Len(state'.knowledgeBase.facts)
                   = Len(state.knowledgeBase.facts) + 1
              /\ SubSeq(state'.knowledgeBase.facts, 1, Len(state.knowledgeBase.facts))
                   = state.knowledgeBase.facts
              /\ state'.knowledgeBase.facts[Len(state'.knowledgeBase.facts)].source
                   = "automatic_optimization"
         ELSE state' = [state EXCEPT !.autoOptimization.lastRun = now] ]_vars

\* Both scores have reached the cap and a run found nothing to flag
C9_Witness ==
  /\ lastEvent.kind = "handler"
  /\ lastEvent.outcome = "nothing_to_do"
  /\ state.performanceMetrics.productivityScore = 1000
  /\ state.productivityMetrics.efficiencyScore = 1000

\* C10: no bounded collection of the store exceeds its configured maximum.
C10_BoundedCollections ==
  /\ Len(state.interactionHistory) <= MaxHistorySize
  /\ Len(state.feedbackData) <= MaxFeedbackSize
  /\ Len(state.knowledgeBase.facts) <= MaxFactsSize
  /\ Len(state.knowledgeBase.patterns) <= MaxPatternsSize
  /\ Len(state.productivityMetrics.userGoals) <= MaxGoalsSize

\* More interactions were added than the history holds
C10_Witness ==
  /\ state.performanceMetrics.totalInteractions > MaxHistorySize
  /\ Len(state.interactionHistory) = MaxHistorySize

\* The last n entries of a sequence, in their order
LastN(seq, n) == SubSeq(seq, Max(1, Len(seq) - n + 1), Len(seq))

\* C11: eviction is first-in first-out.  After t interactions were added to
\* the initially empty history of capacity N, the history holds exactly the
\* interactions t-N+1 .. t (all of them while t <= N) in insertion order; and
\* every add method leaves the last N entries of the old collection followed
\* by the new entry.
C11_FifoEviction ==
  /\ [](LET t == state.performanceMetrics.totalInteractions
            n == Min(t, MaxHistorySize)
        IN /\ Len(state.interactionHistory) = n
           /\ \A i \in 1..n : state.interactionHistory[i].id = t - n + i)
  /\ [][ (lastEvent'.kind = "store" /\ lastEvent'.outcome = "ok")
         => /\ lastEvent'.tool = "addFeedback"
                => /\ state'.feedbackData
                        = LastN(Append(state.feedbackData, [id |-> hist'.adds]),
                                MaxFeedbackSize)
            /\ lastEvent'.tool = "addGoal"
                => /\ state'.productivityMetrics.userGoals
                        = LastN(Append(state.productivityMetrics.userGoals,
                                       [id |-> hist'.adds, priority |-> "medium"]),
                                MaxGoalsSize)
            /\ lastEvent'.tool = "addFact"
                => /\ Len(state'.knowledgeBase.facts) > 0
                   /\ state'.knowledgeBase.facts
                        = LastN(Append(state.knowledgeBase.facts,
                                       state'.knowledgeBase.facts[
                                         Len(state'.knowledgeBase.facts)]),
                                MaxFactsSize)
                   /\ state'.knowledgeBase.facts[Len(state'.knowledgeBase.facts)].id
                        = <<"fact", hist'.adds>>
            /\ lastEvent'.tool = "addPattern"
                => /\ Len(state'.knowledgeBase.patterns) > 0
                   /\ state'.knowledgeBase.patterns
                        = LastN(Append(state.knowledgeBase.patterns,
                                       state'.knowledgeBase.patterns[
                                         Len(state'.knowledgeBase.patterns)]),
                                MaxPatternsSize)
                   /\ state'.knowledgeBase.patterns[
                        Len(state'.knowledgeBase.patterns)].response_type
                        = hist'.adds ]_vars

\* Two interactions beyond the capacity were added: the first two are gone
C11_Witness ==
  /\ state.performanceMetrics.totalInteractions = MaxHistorySize + 2
  /\ Len(state.interactionHistory) = MaxHistorySize
  /\ state.interactionHistory[1].id = 3

\* A step of the given tool in the tool specification
ToolCall(toolName) ==
  lastEvent'.kind \in {"tool", "external"} /\ lastEvent'.tool = toolName

\* The same, restricted to direct calls of the handler
HandlerCall(toolName) ==
  lastEvent'.kind = "tool" /\ lastEvent'.tool = toolName

\* Number of facts of the given source
CountSource(facts, source) ==
  Cardinality({i \in 1..Len(facts) : facts[i].source = source})

\* C12: through the tools, no collection grows beyond its configured
\* maximum.
C12_BoundedThroughTools ==
  /\ Len(state.interactionHistory) <= config.maxHistorySize
  /\ Len(state.feedbackData) <= config.maxFeedbackSize
  /\ Len(state.knowledgeBase.facts) <= config.maxFactsSize
  /\ Len(state.knowledgeBase.patterns) <= config.maxPatternsSize
  /\ Len(state.productivityMetrics.userGoals) <= config.maxGoalsSize

\* A task field that the input contract forbids
NameInvalid(task) == task.name.type # "string" \/ task.name.str = ""
EfficiencyInvalid(task) ==
  /\ task.efficiency.type # "undefined"
  /\ \/ task.efficiency.type # "number"
     \/ task.efficiency.num < 0
     \/ task.efficiency.num > 1000
ToolsUsedInvalid(task) ==
  /\ task.toolsUsed.type # "undefined"
  /\ \/ task.toolsUsed.type # "array"
     \/ \E i \in 1..Len(task.toolsUsed.items) :
          task.toolsUsed.items[i].type # "string"

\* C13: add_task with an invalid name, efficiency or toolsUsed returns an
\* error result and leaves tasksCompleted, toolEffectiveness and
\* efficiencyScore as they were.
C13_AddTaskFailsAtomically ==
  [][ ( /\ HandlerCall("track_productivity")
        /\ lastEvent'.args.action.str = "add_task"
        /\ lastEvent'.args.task.type = "object"
        /\ \/ NameInvalid(lastEvent'.args.task)
           \/ EfficiencyInvalid(lastEvent'.args.task)
           \/ ToolsUsedInvalid(lastEvent'.args.task) )
      => /\ lastEvent'.outcome = "error_result"
         /\ state'.productivityMetrics.tasksCompleted
              = state.productivityMetrics.tasksCompleted
         /\ state'.productivityMetrics.toolEffectiveness
              = state.productivityMetrics.toolEffectiveness
         /\ state'.productivityMetrics.efficiencyScore
              = state.productivityMetrics.efficiencyScore ]_vars

\* C14: add_task is rejected whenever toolsUsed is present and is not an
\* array of strings, and the handler accepts a task exactly when validateTask
\* accepts it.
C14_HandlerAgreesWithValidateTask ==
  [][ ( /\ HandlerCall("track_productivity")
        /\ lastEvent'.args.action.str = "add_task" )
      => /\ (lastEvent'.outcome = "success") <=> validateTask(lastEvent'.args.task)
         /\ ( /\ lastEvent'.args.task.type = "object"
              /\ ToolsUsedInvalid(lastEvent'.args.task) )
            => lastEvent'.outcome = "error_result" ]_vars

\* Number of times the tool is named in toolsUsed
Occurrences(task, tool) ==
  IF task.toolsUsed.type # "array" THEN 0
  ELSE Cardinality({i \in 1..Len(task.toolsUsed.items) :
                      task.toolsUsed.items[i].str = tool})

\* C15: an accepted add_task adds 1 to tasksCompleted, adds to every tool
\* named in toolsUsed one use (and one success unless task.success is false),
\* and sets efficiencyScore to 0.9 * efficiencyScore + 0.1 * e whenever an
\* efficiency e is provided, 0 included; otherwise efficiencyScore is kept.
C15_AddTaskEffect ==
  [][ ( /\ HandlerCall("track_productivity")
        /\ lastEvent'.args.action.str = "add_task"
        /\ lastEvent'.outcome = "success" )
      => LET task == lastEvent'.args.task
             old == state.productivityMetrics
             new == state'.productivityMetrics
             failed == task.success.type = "boolean" /\ task.success.num = 0
             before(tool) == IF tool \in DOMAIN old.toolEffectiveness
                             THEN old.toolEffectiveness[tool]
                             ELSE [uses |-> 0, success |-> 0]
         IN /\ new.tasksCompleted = old.tasksCompleted + 1
            /\ \A tool \in DOMAIN new.toolEffectiveness :
                 /\ new.toolEffectiveness[tool].uses
                      = before(tool).uses + Occurrences(task, tool)
                 /\ new.toolEffectiveness[tool].success
                      = before(tool).success
                          + (IF failed THEN 0 ELSE Occurrences(task, tool))
            /\ \A tool \in DOMAIN old.toolEffectiveness :
                 tool \in DOMAIN new.toolEffectiveness
            /\ new.efficiencyScore
                 = IF task.efficiency.type = "number"
                   THEN (9 * old.efficiencyScore + task.efficiency.num) \div 10
                   ELSE old.efficiencyScore ]_vars

\* A goal that the input contract forbids
GoalInvalid(goal) ==
  \/ goal.description.type # "string"
  \/ goal.description.str = ""
  \/ /\ goal.priority.type # "undefined"
     /\ ~(goal.priority.type = "string"
            /\ goal.priority.str \in {"low", "medium", "high"})

\* C16: set_goal with an invalid description or priority returns an error
\* result and leaves userGoals as it was, and every stored goal is valid.
C16_SetGoalValidated ==
  /\ [][ ( /\ HandlerCall("track_productivity")
           /\ lastEvent'.args.action.str = "set_goal"
           /\ lastEvent'.args.goal.type = "object"
           /\ GoalInvalid(lastEvent'.args.goal) )
         => /\ lastEvent'.outcome = "error_result"
            /\ state'.productivityMetrics.userGoals
                 = state.productivityMetrics.userGoals ]_vars
  /\ [](\A i \in 1..Len(state.productivityMetrics.userGoals) :
          ~GoalInvalid(state.productivityMetrics.userGoals[i]))

\* An interaction that the input contract forbids
InteractionMalformed(interaction) ==
  \/ interaction.type = "undefined"
  \/ interaction.userInput.type # "string" \/ interaction.userInput.str = ""
  \/ interaction.aiResponse.type # "string" \/ interaction.aiResponse.str = ""
  \/ interaction.success.type \notin {"undefined", "boolean"}

\* C17: learn_from_interaction on a malformed interaction raises an error,
\* which the dispatcher passes on, and leaves interactionHistory,
\* feedbackData, facts, patterns, totalInteractions and
\* successfulInteractions as they were.
C17_MalformedInteractionRaises ==
  [][ ( /\ ToolCall("learn_from_interaction")
        /\ InteractionMalformed(lastEvent'.args.interaction) )
      => /\ lastEvent'.outcome = "error"
         /\ state'.interactionHistory = state.interactionHistory
         /\ state'.feedbackData = state.feedbackData
         /\ state'.knowledgeBase.facts = state.knowledgeBase.facts
         /\ state'.knowledgeBase.patterns = state.knowledgeBase.patterns
         /\ state'.performanceMetrics.totalInteractions
              = state.performanceMetrics.totalInteractions
         /\ state'.performanceMetrics.successfulInteractions
              = state.performanceMetrics.successfulInteractions ]_vars

\* After an interaction was learned, a call through the dispatcher with a
\* success that is not a boolean raised, and the error was recorded
C17_Witness ==
  /\ lastEvent.kind = "external"
  /\ lastEvent.tool = "learn_from_interaction"
  /\ lastEvent.outcome = "error"
  /\ lastEvent.args.interaction.type = "object"
  /\ lastEvent.args.interaction.success.type = "string"
  /\ state.performanceMetrics.totalInteractions = 1
  /\ Len(state.interactionHistory) = 1
  /\ state.performanceMetrics.errorCount = 1

\* The success rate as learn_from_interaction reports it, in tenths of a
\* percent: (successfulInteractions / totalInteractions * 100).toFixed(1)
successRate(s) ==
  (2000 * s.performanceMetrics.successfulInteractions
     + s.performanceMetrics.totalInteractions)
    \div (2 * s.performanceMetrics.totalInteractions)

\* C18: a successful learn_from_interaction call appends one entry to the
\* history, adds 1 to totalInteractions and adds 1 to successfulInteractions
\* iff success is not false; always 0 <= successfulInteractions <=
\* totalInteractions, so the success rate lies between 0% and 100%, and it is
\* 100.0% when the single interaction so far had success true.
C18_InteractionCounters ==
  /\ [][ ( /\ ToolCall("learn_from_interaction")
           /\ lastEvent'.outcome = "success" )
         => LET success == lastEvent'.args.interaction.success
                n == Len(state.interactionHistory)
            IN /\ Len(state'.interactionHistory) = n + 1
               /\ SubSeq(state'.interactionHistory, 1, n) = state.interactionHistory
               /\ state'.performanceMetrics.totalInteractions
                    = state.performanceMetrics.totalInteractions + 1
               /\ state'.performanceMetrics.successfulInteractions
                    = state.performanceMetrics.successfulInteractions
                        + (IF success.type = "boolean" /\ success.num = 0
                           THEN 0 ELSE 1) ]_vars
  /\ [](/\ 0 <= state.performanceMetrics.successfulInteractions
        /\ state.performanceMetrics.successfulInteractions
             <= state.performanceMetrics.totalInteractions
        /\ state.performanceMetrics.totalInteractions > 0
             => successRate(state) \in 0..1000
        /\ ( /\ state.performanceMetrics.totalInteractions = 1
             /\ lastEvent.tool = "learn_from_interaction"
             /\ lastEvent.outcome = "success"
             /\ lastEvent.args.interaction.success.type = "boolean"
             /\ lastEvent.args.interaction.success.num = 1 )
           => successRate(state) = 1000)

\* A failed interaction was learned after a successful one
C18_Witness ==
  /\ lastEvent.tool = "learn_from_interaction"
  /\ lastEvent.outcome = "success"
  /\ lastEvent.args.interaction.success.type = "boolean"
  /\ lastEvent.args.interaction.success.num = 0
  /\ state.performanceMetrics.totalInteractions = 2
  /\ state.performanceMetrics.successfulInteractions = 1
  /\ successRate(state) = 500

\* C19: in a successful learn_from_interaction call a feedback entry is
\* stored iff a feedback text is given; one fact of source user_feedback is
\* appended iff the text contains "good" or "great" in any letter case; one
\* pattern avoid_response_type of effectiveness 0.2 is appended iff it
\* contains "bad" or "improve"; a text with triggers of both kinds gets both.
C19_IndependentFeedbackChecks ==
  [][ ( /\ ToolCall("learn_from_interaction")
        /\ lastEvent'.outcome = "success" )
      => LET interaction == lastEvent'.args.interaction
             text == interaction.userFeedback.chars
             present == interaction.userFeedback.type = "string" /\ text # <<>>
             positive == text \in {TextGood, TextGreat, TextBoth}
             negative == text \in {TextBad, TextImprove, TextBoth}
         IN /\ state'.feedbackData
                 = IF present
                   THEN Append(state.feedbackData,
                               [feedback |-> interaction.userFeedback])
                   ELSE state.feedbackData
            /\ CountSource(state'.knowledgeBase.facts, "user_feedback")
                 = CountSource(state.knowledgeBase.facts, "user_feedback")
                     + (IF positive THEN 1 ELSE 0)
            /\ state'.knowledgeBase.patterns
                 = IF negative
                   THEN Append(state.knowledgeBase.patterns,
                               [pattern |-> "avoid_response_type",
                                response_type |-> "hello",
                                effectiveness |-> 200])
                   ELSE state.knowledgeBase.patterns ]_vars

\* A feedback with triggers of both kinds produced a fact and a pattern
C19_Witness ==
  /\ lastEvent.tool = "learn_from_interaction"
  /\ lastEvent.outcome = "success"
  /\ lastEvent.args.interaction.userFeedback.chars = TextBoth
  /\ CountSource(state.knowledgeBase.facts, "user_feedback") = 1
  /\ Len(state.knowledgeBase.patterns) = Len(SeedPatterns) + 1
  /\ state.knowledgeBase.patterns[Len(state.knowledgeBase.patterns)].pattern
       = "avoid_response_type"
  /\ Len(state.feedbackData) = 1

\* The step merges into the preferences exactly the fields in supplied and
\* appends one fact of source behavioral_adaptation
Merged(preferences, adaptation, supplied) ==
  /\ adaptation.type = "object"
  /\ \A f \in PreferenceFields :
       state'.knowledgeBase.preferences[f]
         = IF f \in supplied THEN adaptation[f] ELSE preferences[f]
  /\ Len(state'.knowledgeBase.facts) = Len(state.knowledgeBase.facts) + 1
  /\ SubSeq(state'.knowledgeBase.facts, 1, Len(state.knowledgeBase.facts))
       = state.knowledgeBase.facts
  /\ state'.knowledgeBase.facts[Len(state'.knowledgeBase.facts)].source
       = "behavioral_adaptation"

IsPresent(value) == value.type # "undefined"
IsNonEmpty(value) == value.type \notin {"undefined", "null"} /\ value # JsStr("")

InEnum(field, value) ==
  value.type = "string" /\ value.str \in PreferenceEnums[field]

\* C21: every preference field that is set holds a value of its declared
\* enum, and an adapt_behavior call supplying a value outside a field's enum
\* returns an error result and changes neither the preferences nor the facts.
C21_PreferenceEnums ==
  /\ [](\A f \in PreferenceFields :
          \/ state.knowledgeBase.preferences[f].type = "undefined"
          \/ InEnum(f, state.knowledgeBase.preferences[f]))
  /\ [][ ( /\ ToolCall("adapt_behavior")
           /\ lastEvent'.args.adaptation.type = "object"
           /\ \E f \in PreferenceFields :
                /\ IsNonEmpty(lastEvent'.args.adaptation[f])
                /\ ~InEnum(f, lastEvent'.args.adaptation[f]) )
         => /\ lastEvent'.outcome = "error_result"
            /\ state'.knowledgeBase.preferences = state.knowledgeBase.preferences
            /\ state'.knowledgeBase.facts = state.knowledgeBase.facts ]_vars

----------------------------------------------------------------------------
\* Report handlers: frame, failures and ratios

ReportTools == {"get_learning_insights", "optimize_performance", "enhance_tool_usage"}

\* The option the call just made runs with: the argument under key, or the
\* handler's default for it
Requested(key, default) == Default(Get(lastEvent'.args, key), JsStr(default)).str

\* The call just made is one of the report tools or a reporting action of
\* track_productivity
ReportCall ==
  \/ \E tool \in ReportTools : ToolCall(tool)
  \/ /\ ToolCall("track_productivity")
     /\ Requested("action", "get_metrics") \in {"get_metrics", "analyze_efficiency"}

\* C22: a direct call of get_learning_insights, optimize_performance or
\* enhance_tool_usage, or of the get_metrics or analyze_efficiency action of
\* track_productivity, leaves every component of the state unchanged.
C22_ReportHandlersPure ==
  [][ (ReportCall /\ lastEvent'.kind = "tool") => state' = state ]_vars

\* optimize_performance reported on a state that an interaction with positive
\* feedback had changed before
C22_Witness ==
  /\ lastEvent.kind = "tool"
  /\ lastEvent.tool = "optimize_performance"
  /\ lastEvent.outcome = "success"
  /\ state.performanceMetrics.totalInteractions = 1
  /\ Len(state.feedbackData) = 1
  /\ <<"positiveFeedback", "">> \in DOMAIN lastEvent.report.counts
  /\ lastEvent.report.counts[<<"positiveFeedback", "">>] = 1

\* C23: in every state reached by tool calls, get_learning_insights,
\* optimize_performance and enhance_tool_usage return a non-error result
\* without raising, and render absent data as a no-data message.
C23_ReportHandlersNeverThrow ==
  [][ (\E tool \in ReportTools : ToolCall(tool))
      => /\ ~lastEvent'.thrown
         /\ lastEvent'.outcome = "success"
         /\ ( /\ ToolCall("enhance_tool_usage")
              /\ Requested("analysisType", "comprehensive")
                   \in {"usage_patterns", "comprehensive"}
              /\ SumValues(state.performanceMetrics.toolUsageCount) = 0 )
            => "No usage data available" \in lastEvent'.report.messages
         /\ ( /\ ToolCall("enhance_tool_usage")
              /\ Requested("analysisType", "comprehensive") = "comprehensive"
              /\ DOMAIN state.productivityMetrics.toolEffectiveness = {} )
            => "No effectiveness data available" \in lastEvent'.report.messages
         /\ ( /\ ToolCall("get_learning_insights")
              /\ Requested("detailLevel", "summary") \in {"detailed", "full"}
              /\ state.interactionHistory = <<>> )
            => "- No recent interactions" \in lastEvent'.report.messages ]_vars

\* No ratio of the report is NaN or Infinity
RatiosDefined(report) ==
  \A label \in DOMAIN report.rates : report.rates[label] \notin {NaN, Infinity}

EffectivenessBounds ==
  \A tool \in DOMAIN state.productivityMetrics.toolEffectiveness :
    LET stats == state.productivityMetrics.toolEffectiveness[tool]
    IN 0 <= stats.success /\ stats.success <= stats.uses

\* The guards on uses, on the total usage and on totalInteractions in the
\* success rate: the report of the call just made shows the quotient where
\* the denominator is positive and "N/A", 0 or a no-data message where it is 0
GuardedRatios ==
  LET report == lastEvent'.report
      effectiveness == state.productivityMetrics.toolEffectiveness
      toolUsage == state.performanceMetrics.toolUsageCount
      interactions == state.performanceMetrics.totalInteractions
  IN /\ RatiosDefined(report)
     /\ ToolCall("track_productivity")
        => \A tool \in DOMAIN effectiveness :
             report.rates[<<"tool", tool>>]
               = IF effectiveness[tool].uses = 0 THEN JsStr("N/A")
                 ELSE Divide(effectiveness[tool].success, effectiveness[tool].uses)
     /\ ( /\ ToolCall("enhance_tool_usage")
          /\ Requested("analysisType", "comprehensive")
               \in {"usage_patterns", "comprehensive"} )
        => IF SumValues(toolUsage) = 0
           THEN /\ "No usage data available" \in report.messages
                /\ \A label \in DOMAIN report.rates : label[1] # "usage"
           ELSE \A tool \in DOMAIN toolUsage :
                  report.rates[<<"usage", tool>>]
                    = Divide(toolUsage[tool], SumValues(toolUsage))
     /\ ( /\ ToolCall("enhance_tool_usage")
          /\ <<"toolUsageRate", "">> \in DOMAIN report.rates )
        => report.rates[<<"toolUsageRate", "">>]
             = Divide(SumValues(toolUsage), Max(interactions, 1))
     /\ <<"successRate", "">> \in DOMAIN report.rates
        => report.rates[<<"successRate", "">>]
             = IF interactions = 0
               THEN (IF ToolCall("optimize_performance") THEN JsNum(0) ELSE JsStr("0"))
               ELSE Divide(state.performanceMetrics.successfulInteractions,
                           interactions)
     /\ \A success \in 0..1 :
          toolRate([uses |-> 0, success |-> success], JsStr("N/A")) = JsStr("N/A")
     /\ calculateSuccessRate(0, 0) = JsNum(0)
     /\ formatToolStats(<<>>).messages = {"No tool usage data available"}
     /\ formatToolStats([echo |-> [uses |-> 0, success |-> 0]]).rates[<<"tool", "echo">>]
          = JsStr("N/A")

\* The getters of the store that guard their denominator, in the current
\* state
GuardedGetters ==
  /\ state.performanceMetrics.totalInteractions = 0
     => calculateSuccessRate(state.performanceMetrics.totalInteractions,
                             state.performanceMetrics.successfulInteractions)
          = JsNum(0)
  /\ RatiosDefined(formatToolStats(state.productivityMetrics.toolEffectiveness))
  /\ getAverageToolUsage(state) \notin {NaN, Infinity}

----------------------------------------------------------------------------
\* deepSanitize

MaxOf(S) == CHOOSE x \in S : \A y \in S : y <= x

\* Number of containers around the most deeply nested value
RECURSIVE Depth(_)
Depth(value) ==
  IF value.type = "array"
  THEN IF value.items = <<>> THEN 0
       ELSE 1 + MaxOf({Depth(value.items[i]) : i \in 1..Len(value.items)})
  ELSE IF value.type = "object"
  THEN IF Keys(value) = {} THEN 0
       ELSE 1 + MaxOf({Depth(value[key]) : key \in Keys(value)})
  ELSE 0

\* out is input without the dangerous keys of its objects at every level,
\* and with everything else as it was
RECURSIVE Stripped(_, _)
Stripped(input, out) ==
  IF input.type = "array"
  THEN /\ out.type = "array"
       /\ Len(out.items) = Len(input.items)
       /\ \A i \in 1..Len(input.items) : Stripped(input.items[i], out.items[i])
  ELSE IF input.type = "object"
  THEN /\ out.type = "object"
       /\ Keys(out) = Keys(input) \ {"__proto__", "constructor", "prototype"}
       /\ \A key \in Keys(out) : Stripped(input[key], out[key])
  ELSE out = input

\* C25: for an input nested at most 10 levels deep, deepSanitize returns the
\* input with the keys __proto__, constructor and prototype removed at every
\* level, inside arrays too, and everything else unchanged; sanitizing the
\* result again returns it unchanged.
C25_StripsDangerousKeys ==
  /\ ( /\ lastEvent.kind = "sanitized"
       /\ Depth(lastEvent.args) <= 10 )
     => /\ lastEvent.outcome = "ok"
        /\ Stripped(lastEvent.args, lastEvent.returned[1])
  /\ lastEvent.kind = "resanitized"
     => /\ lastEvent.outcome = "ok"
        /\ lastEvent.returned = lastEvent.once

\* An input ten levels deep with a dangerous key at the innermost level came
\* back without it, twice
C25_Witness ==
  /\ lastEvent.kind = "resanitized"
  /\ Depth(lastEvent.args) = 10
  /\ lastEvent.once # Some(lastEvent.args)
  /\ Stripped(lastEvent.args, lastEvent.once[1])
  /\ lastEvent.returned = lastEvent.once

\* C26: for an input nested more than 10 levels deep, wherever the excess
\* depth is, deepSanitize fails and returns nothing.
C26_RejectsDeepInput ==
  ( /\ lastEvent.kind = "sanitized"
    /\ Depth(lastEvent.args) > 10 )
  => /\ lastEvent.outcome = "error"
     /\ lastEvent.returned = Null

----------------------------------------------------------------------------
\* Dispatcher

RECURSIVE NoDangerousKey(_)
NoDangerousKey(value) ==
  IF value.type = "array"
  THEN \A i \in 1..Len(value.items) : NoDangerousKey(value.items[i])
  ELSE IF value.type = "object"
  THEN /\ Keys(value) \cap {"__proto__", "constructor", "prototype"} = {}
       /\ \A key \in Keys(value) : NoDangerousKey(value[key])
  ELSE TRUE

\* request.params.arguments || {} of the call just made
RawArguments == IF truthy(lastEvent'.args) THEN lastEvent'.args ELSE JsObj(<<>>)

\* The call just made went through the dispatcher to a registered tool
Dispatched == lastEvent'.kind = "external" /\ lastEvent'.tool \in ToolNames

\* C27: the dispatcher hands to the handler, at most once, what deepSanitize
\* returned for the raw arguments and nothing else; when sanitization fails
\* the handler is not invoked, the call raises, and only the error metrics
\* of the state change.
C27_HandlerGetsSanitizedArguments ==
  [][ Dispatched
      => LET sanitized == deepSanitize(RawArguments, 0)
         IN /\ lastEvent'.handled # Null
               => /\ ~sanitized.thrown
                  /\ lastEvent'.handled = Some(sanitized.value)
                  /\ NoDangerousKey(lastEvent'.handled[1])
            /\ sanitized.thrown
               => /\ lastEvent'.handled = Null
                  /\ lastEvent'.outcome = "error"
                  /\ lastEvent'.thrown
                  /\ state' =
                       [state EXCEPT
                          !.performanceMetrics.errorCount =
                             state'.performanceMetrics.errorCount,
                          !.performanceMetrics.lastError =
                             state'.performanceMetrics.lastError] ]_vars

\* After an adaptation whose custom preferences lost their __proto__ key on
\* the way to the handler, an adaptation nested too deeply was turned away
C27_Witness ==
  /\ lastEvent.kind = "external"
  /\ lastEvent.tool = "adapt_behavior"
  /\ lastEvent.outcome = "error"
  /\ lastEvent.handled = Null
  /\ lastEvent.message = "Invalid input format"
  /\ state.knowledgeBase.preferences.customPreferences.type = "object"
  /\ Keys(state.knowledgeBase.preferences.customPreferences) = {"theme"}
  /\ CountSource(state.knowledgeBase.facts, "behavioral_adaptation") = 1
  /\ state.performanceMetrics.errorCount = 1

\* C28: when a dispatched call fails, because the tool is unknown, the
\* arguments are rejected by sanitization or the handler raises, errorCount
\* grows by one, lastError records the tool name and the message, the error
\* is raised again, and toolUsageCount and averageResponseTime stay as they
\* were.
C28_FailureRecorded ==
  [][ ( /\ lastEvent'.kind = "external"
        /\ \/ lastEvent'.tool \notin ToolNames
           \/ deepSanitize(RawArguments, 0).thrown
           \/ toolHandler(state, lastEvent'.tool,
                          deepSanitize(RawArguments, 0).value, now).thrown )
      => /\ state'.performanceMetrics.errorCount
              = state.performanceMetrics.errorCount + 1
         /\ lastEvent'.message # ""
         /\ state'.performanceMetrics.lastError
              = Some([tool |-> lastEvent'.tool, message |-> lastEvent'.message,
                      timestamp |-> now])
         /\ lastEvent'.thrown
         /\ lastEvent'.outcome = "error"
         /\ state'.performanceMetrics.toolUsageCount
              = state.performanceMetrics.toolUsageCount
         /\ state'.performanceMetrics.averageResponseTime
              = state.performanceMetrics.averageResponseTime ]_vars

\* A call of an unknown tool failed after a handler had raised
C28_Witness ==
  /\ lastEvent.kind = "external"
  /\ lastEvent.tool = "no_such_tool"
  /\ lastEvent.thrown
  /\ state.performanceMetrics.errorCount = 2
  /\ state.performanceMetrics.lastError[1].tool = "no_such_tool"
  /\ state.performanceMetrics.lastError[1].message = "Tool not found"
  /\ Len(state.feedbackData) = 1
  /\ DOMAIN state.performanceMetrics.toolUsageCount = {}

----------------------------------------------------------------------------
\* system_info

\* C29: system_info shows values of the environment variables NODE_ENV and
\* TZ only: its result is the same in any two environments that agree on
\* these two variables, and it never carries the environment as a whole.
C29_EnvironmentAllowList ==
  lastEvent.kind = "system_info"
  => LET env == lastEvent.args.env
         result == lastEvent.returned
     IN /\ \A other \in Environments :
             (\A name \in AllowList : other[name] = env[name])
             => handleSystemInfo(lastEvent.args.arguments, Process(other)) = result
        /\ "env" \notin DOMAIN result.info
        /\ "safeEnv" \in DOMAIN result.info
           => /\ DOMAIN result.info.safeEnv = AllowList
              /\ \A name \in (DOMAIN env) \ AllowList :
                   truthy(env[name])
                   => \A shown \in DOMAIN result.info.safeEnv :
                        result.info.safeEnv[shown] # env[name]

\* A full report in an environment that holds a secret
C29_Witness ==
  /\ lastEvent.kind = "system_info"
  /\ lastEvent.returned.detail = JsStr("full")
  /\ lastEvent.args.env.SECRET_KEY = JsStr("s3cr3t")
  /\ lastEvent.returned.info.safeEnv.NODE_ENV = JsStr("production")
  /\ lastEvent.returned.info.safeEnv.TZ = JsStr("Europe/Berlin")

----------------------------------------------------------------------------
\* Facts

ValidFact(fact) ==
  /\ 0 <= fact.confidence /\ fact.confidence <= One
  /\ fact.source \in { "pattern_analysis", "metrics_analysis", "performance_analysis",
                       "system_analysis", "user_feedback", "context_analysis",
                       "behavioral_adaptation", "automatic_optimization" }

\* C30: every fact of the store has a confidence in [0, 1] and a known
\* source, and addFact with a confidence outside [0, 1] or an unknown source
\* raises and leaves the facts unchanged.
C30_ValidFacts ==
  /\ [](\A i \in 1..Len(state.knowledgeBase.facts) :
          ValidFact(state.knowledgeBase.facts[i]))
  /\ [][ ( /\ lastEvent'.kind = "store"
           /\ lastEvent'.tool = "addFact"
           /\ ~ValidFact(lastEvent'.args) )
         => /\ lastEvent'.outcome = "thrown"
            /\ state'.knowledgeBase.facts = state.knowledgeBase.facts ]_vars

\* addFact turned a fact of confidence 1.5 away after it had stored one
C30_Witness ==
  /\ lastEvent.kind = "store"
  /\ lastEvent.tool = "addFact"
  /\ lastEvent.outcome = "thrown"
  /\ lastEvent.args.confidence = 1500
  /\ lastEvent.args.source = "user_feedback"
  /\ Len(state.knowledgeBase.facts) = Len(SeedFacts) + 1

----------------------------------------------------------------------------
\* C31: addPattern rejects a pattern whose effectiveness is outside [0,1]
\* and leaves the patterns list unchanged, so that every stored pattern has
\* an effectiveness in [0,1].

ValidEffectiveness(value) == value >= 0 /\ value <= One

C31_PatternEffectivenessChecked ==
  /\ [][ (lastEvent'.tool = "addPattern"
           /\ ~ValidEffectiveness(lastEvent'.args.effectiveness))
         => /\ lastEvent'.outcome = "thrown"
            /\ state'.knowledgeBase.patterns = state.knowledgeBase.patterns ]_vars
  /\ [](\A i \in 1..Len(state.knowledgeBase.patterns) :
          ValidEffectiveness(state.knowledgeBase.patterns[i].effectiveness))

----------------------------------------------------------------------------
\* C32: in every state reached by tool calls and scheduler attempts the
\* productivity score and the efficiency score lie in [0,1]; a call of
\* auto_optimize (by a caller or by the scheduler) or of complete_task never
\* lowers either score and never takes one above 1.0.

InUnitRange(score) == score >= 0 /\ score <= One

productivityScore == state.performanceMetrics.productivityScore

efficiencyScore == state.productivityMetrics.efficiencyScore

RaisesScores ==
  \/ lastEvent'.tool = "auto_optimize"
  \/ /\ lastEvent'.tool = "track_productivity"
     /\ Get(lastEvent'.args, "action") = JsStr("complete_task")

C32_ScoresBoundedAndMonotone ==
  /\ [](InUnitRange(productivityScore) /\ InUnitRange(efficiencyScore))
  /\ [][ RaisesScores =>
           /\ productivityScore' >= productivityScore /\ productivityScore' <= One
           /\ efficiencyScore' >= efficiencyScore /\ efficiencyScore' <= One ]_vars

\* complete_task has just met the cap, with both scores at 1.0
C32_Witness ==
  /\ lastEvent.tool = "track_productivity"
  /\ Get(lastEvent.args, "action") = JsStr("complete_task")
  /\ productivityScore = One
  /\ efficiencyScore = One
  /\ state.productivityMetrics.tasksCompleted = MaxTasks
  /\ hist.schedInvoked > 0

----------------------------------------------------------------------------
\* C33: an executed auto_optimize run flags an improvement iff the priority
\* is performance or balanced and the success rate (0 without interactions)
\* is below minSuccessRate or the average tool usage is below minToolUsage,
\* or the priority is productivity or balanced and the efficiency score is
\* below 0.85 or the productivity score is below targetProductivity; a run
\* with priority tool_usage flags nothing and changes lastRun only.

PerformanceBelowTarget ==
  LET total == state.performanceMetrics.totalInteractions
      successful == state.performanceMetrics.successfulInteractions
      usage == SumValues(state.performanceMetrics.toolUsageCount)
      targets == state.autoOptimization.targetMetrics
  IN \/ IF total = 0 THEN 0 < targets.minSuccessRate
        ELSE successful * One < targets.minSuccessRate * total
     \/ usage * One < targets.minToolUsage * (IF total > 1 THEN total ELSE 1)

ProductivityBelowTarget ==
  \/ state.productivityMetrics.efficiencyScore < EfficiencyTarget
  \/ state.performanceMetrics.productivityScore
       < state.autoOptimization.targetMetrics.targetProductivity

ExecutedRun ==
  /\ lastEvent'.kind = "handler"
  /\ lastEvent'.tool = "auto_optimize"
  /\ lastEvent'.outcome # "skipped"

C33_FlaggingRule ==
  [][ ExecutedRun =>
        /\ lastEvent'.outcome = "optimized"
             <=> \/ /\ lastEvent'.returned \in {"performance", "balanced"}
                    /\ PerformanceBelowTarget
                 \/ /\ lastEvent'.returned \in {"productivity", "balanced"}
                    /\ ProductivityBelowTarget
        /\ lastEvent'.returned = "tool_usage" =>
             /\ lastEvent'.outcome = "nothing_to_do"
             /\ state' = [state EXCEPT !.autoOptimization.lastRun = now] ]_vars

\* A performance run that flags nothing while the efficiency score is still
\* below its target
C33_Witness ==
  /\ lastEvent.kind = "handler"
  /\ lastEvent.returned = "performance"
  /\ lastEvent.outcome = "nothing_to_do"
  /\ state.performanceMetrics.totalInteractions = 1
  /\ state.productivityMetrics.efficiencyScore < EfficiencyTarget

----------------------------------------------------------------------------
\* C34: however scheduler attempts and auto_optimize calls are interleaved,
\* the gate reads and writes lastRun in one step: an executed run without
\* force starts at least one full interval after the previous executed run
\* (forced or not), and lastRun never decreases.

UnforcedExecutedRun ==
  /\ lastEvent'.tool = "auto_optimize"
  /\ ~lastEvent'.force
  /\ \/ lastEvent'.kind \in SchedulerKinds /\ lastEvent'.returned = "executed"
     \/ lastEvent'.kind = "handler" /\ lastEvent'.outcome # "skipped"
     \/ lastEvent'.kind = "external" /\ lastEvent'.outcome = "success"

C34_AtomicIntervalGate ==
  [][ /\ state'.autoOptimization.lastRun >= state.autoOptimization.lastRun
      /\ (UnforcedExecutedRun /\ hist.lastExecuted # Null)
           => now - hist.lastExecuted[1] >= Interval ]_vars

\* A direct run without force executed one interval after a forced run, the
\* interval tick in between having been skipped
C34_Witness ==
  /\ lastEvent.kind = "handler"
  /\ ~lastEvent.force
  /\ lastEvent.outcome = "optimized"
  /\ now = Interval + StartupDelay
  /\ hist.schedInvoked = 2
  /\ hist.lastExecuted = Some(now)
  /\ Len(state.knowledgeBase.facts) = Len(SeedFacts) + 2

----------------------------------------------------------------------------
\* C35: while the scheduler is enabled and the handler does not fail, an
\* interval tick is skipped iff a run was executed less than one interval
\* before it.  Ticks alone are a full interval apart, so without calls from
\* outside every tick executes a run and advances lastRun; a forced call
\* from outside less than one interval before a tick makes that tick skip.

AnsweredTick ==
  /\ lastEvent'.kind = "tick"
  /\ lastEvent'.returned \in {"executed", "skipped"}

RunTooRecent ==
  /\ hist.lastExecuted # Null
  /\ now - hist.lastExecuted[1] < Interval

C35_PeriodicProgress ==
  [][ AnsweredTick =>
        /\ lastEvent'.returned = "skipped" <=> RunTooRecent
        /\ lastEvent'.returned = "executed" =>
             /\ state'.autoOptimization.lastRun = now
             /\ state'.autoOptimization.lastRun > state.autoOptimization.lastRun
        /\ lastEvent'.returned = "skipped" =>
             state'.autoOptimization.lastRun = state.autoOptimization.lastRun ]_vars

\* The first tick was skipped after a forced run at the time of the startup
\* delay
C35_Witness ==
  /\ lastEvent.kind = "tick"
  /\ lastEvent.returned = "skipped"
  /\ now = Interval
  /\ hist.lastExecuted = Some(StartupDelay)
  /\ state.autoOptimization.lastRun = StartupDelay

----------------------------------------------------------------------------
\* C36: the circuit breaker is driven by failed scheduler attempts only:
\* whenever auto-optimization is disabled, more than 5 scheduler attempts
\* have failed, however many dispatched tool calls have failed.

C36_BreakerCountsSchedulerFailures ==
  ~state.autoOptimization.enabled => hist.schedFailed > FailureThreshold

----------------------------------------------------------------------------
\* C37: learn_from_interaction is all-or-nothing: a call that raises an
\* error, whatever the reason and whatever the types of userFeedback and
\* context, leaves interactionHistory, feedbackData, facts, patterns,
\* totalInteractions and successfulInteractions as they were.

Learnt(s) ==
  << s.interactionHistory, s.feedbackData, s.knowledgeBase.facts,
     s.knowledgeBase.patterns, s.performanceMetrics.totalInteractions,
     s.performanceMetrics.successfulInteractions >>

C37_LearnIsAllOrNothing ==
  [][ (lastEvent'.tool = "learn_from_interaction" /\ lastEvent'.outcome = "error")
      => Learnt(state') = Learnt(state) ]_vars

----------------------------------------------------------------------------
\* C38: the startup attempt never performs an optimization.  lastRun starts
\* at the construction time and the startup delay is shorter than the
\* interval, so the attempt, made without force, is skipped whatever calls
\* came before it; a scheduler run is executed at an interval tick only.

----------------------------------------------------------------------------
\* C39: a scheduler attempt whose auto_optimize call was skipped is not
\* recorded as a successful optimization: lastOptimization changes only on
\* an attempt in which the optimization was executed.

C39_SkipIsNotRecorded ==
  [][ (lastEvent'.kind \in SchedulerKinds /\ lastEvent'.returned = "skipped")
      => state'.performanceMetrics.lastOptimization
           = state.performanceMetrics.lastOptimization ]_vars

----------------------------------------------------------------------------
\* The custom map of a preferences object: the own properties of its
\* customPreferences, none when it has no such object
CustomMap(preferences) ==
  LET custom == Get(preferences, "customPreferences")
  IN IF custom.type = "object" THEN Props(custom) ELSE <<>>

\* C40: customPreferences are shallow-merged into the custom map only: after
\* a successful adapt_behavior call that supplies customPreferences, the
\* custom map holds the supplied value for every supplied key and its
\* earlier value for every other key, and each of the four core preference
\* fields holds what the adaptation itself supplies for it or else its
\* earlier value, whatever the names of the custom keys.
C40_CustomMergeLeavesCoreFields ==
  [][ ( /\ ToolCall("adapt_behavior")
        /\ lastEvent'.outcome = "success"
        /\ lastEvent'.args.adaptation.type = "object"
        /\ Get(lastEvent'.args.adaptation, "customPreferences").type = "object" )
      => LET adaptation == lastEvent'.args.adaptation
         IN /\ CustomMap(state'.knowledgeBase.preferences)
                 = ObjectAssign(CustomMap(state.knowledgeBase.preferences),
                                Props(adaptation.customPreferences))
            /\ \A f \in PreferenceFields :
                 Get(state'.knowledgeBase.preferences, f)
                   = IF truthy(Get(adaptation, f)) THEN adaptation[f]
                     ELSE Get(state.knowledgeBase.preferences, f) ]_vars

====
